---- MODULE Spec2Model ----
(***************************************************************************)
(* Model of coro.h (wc-duck/coro): protothread-style coroutines with a     *)
(* caller-supplied stack for locals, arguments and sub-coroutines.         *)
(*                                                                         *)
(* Memory is modelled at 32-bit word granularity: mem maps every 4-byte    *)
(* aligned absolute address of the stack buffer to the word stored there.  *)
(* All sizes and offsets are the byte values of an LP64 build.  A pointer  *)
(* field occupies two words (value, then a zero high half).                *)
(* TLC's integers are 32 bits wide, so the two unsigned widths are scaled  *)
(* down: a uint32_t offset is 16 bits wide (the all-ones sentinel          *)
(* 0xFFFFFFFF is 0xFFFF) and a pointer 24 bits.  Every buffer is far       *)
(* smaller than 2^16 bytes, so the sentinel is the only value near a width.*)
(*                                                                         *)
(* One co_resume is one action.  Run interprets the coroutine functions    *)
(* exactly as the macros expand, on a machine record                       *)
(*   [co, mem, ext, trace, failed, cs]                                     *)
(* where trace is the log of what happened during the current resume and   *)
(* cs the C call stack of the co_func invocations in progress.  The        *)
(* variables resumes (co_resume calls since co_init), suspended (co_yield  *)
(* and co_wait statements executed since co_init), prev (the log of the    *)
(* resume before the last) and input0 (the argument value at co_init)      *)
(* record history.                                                         *)
(***************************************************************************)
EXTENDS Integers, Sequences, FiniteSets, TLC

VARIABLES co, mem, ext, trace, failed, resumes, prev, input0, suspended

vars == <<co, mem, ext, trace, failed, resumes, prev, input0, suspended>>

----------------------------------------------------------------------------
(* Program constants                                                       *)

CORO_STATE_CREATED == -1
CORO_STATE_COMPLETED == -2
\* the all-ones sentinel of sub_call / call_locals / call_args (0xFFFFFFFF)
NONE == 65535
\* sizeof / alignof of struct _coro_call_state (LP64: 8+8+4+4+4+4)
FrameSize == 32
FrameAlign == 8
\* byte offsets of the fields of struct _coro_call_state
Off == [root |-> 0, func |-> 8, state |-> 16, sub_call |-> 20,
        call_locals |-> 24, call_args |-> 28]
WordSize == 4
\* 2^width of a pointer and of a uint32_t offset
PtrMod == 16777216
U32Mod == 65536

----------------------------------------------------------------------------
(* Addresses of the objects of the embedding program (the test bodies).    *)

\* "coro co;" : the root object lives outside the stack buffer
CoAddr == 128
\* "uint8_t stack[...]" : base address of the stack buffer
StackBase == 4096
\* userdata targets: two objects of two ints each
UdA == 256
UdB == 272
\* "int output = 7331;"
OutAddr == 288
\* "args a;" : the caller's argument variable (4 words)
ArgVar == 304
\* "static int cnt = 0;" of coro_no_stack
StaticCnt == 320

ExtAddrs == {UdA, UdA + 4, UdB, UdB + 4, OutAddr,
             ArgVar, ArgVar + 4, ArgVar + 8, ArgVar + 12, StaticCnt}

----------------------------------------------------------------------------
(* Bounds of the explored inputs                                           *)

\* largest start value handed to the counting coroutine as argument
MaxCount == 2

----------------------------------------------------------------------------
(* The coroutine functions handed to the engine.  A function is named by   *)
(* the line of test_coro.cpp on which it starts; a statement by line * 10  *)
(* + its position on that line, so that the __LINE__ a co_yield or co_call *)
(* stores in call.state is pc \div 10.                                     *)

coro_basic == 40
coro_no_stack == 77
coro_sub_call == 117
coro_sub_call_sub == 127
coro_with_args == 176
coro_with_args_in_subcall == 204
coro_with_args_in_subcall_sub == 213
coro_yield_without_braces == 243
coro_wait_without_braces == 280
coro_early_exit == 316
coro_early_exit_without_braces == 341
\* a coroutine that counts its int argument down in place and a local up,
\* yielding once per count ("it is valid to write to arguments", coro.h
\* 138-139), and the parent of coro_with_args_in_subcall calling it instead
arg_countdown == 900
arg_countdown_caller == 910
\* the lambda of coro_stack_overflow_locals_in_call (co_begin; co_call(co, X);
\* co_end) around callee X, nested d times: d * 1000 + X
call_in_call(X) == 1000 + X

IsCallInCall(f) == f >= 1000

Instr(op, a, b, next, alt) == [op |-> op, a |-> a, b |-> b, next |-> next, alt |-> alt]

\* co_locals_begin / co_locals_end of the function: the words the default
\* constructor writes; << >> when the function declares no locals
LocalsInit(f) ==
    IF f \in {coro_basic, coro_sub_call, coro_sub_call_sub, coro_with_args_in_subcall,
              coro_yield_without_braces, coro_wait_without_braces,
              arg_countdown, arg_countdown_caller}
    THEN <<0>> ELSE << >>

LocalsSize(f) == WordSize * Len(LocalsInit(f))

LocalsAlign(f) == 4

\* sizeof / alignof of the argument type the function casts its arg to
ArgSize(f) ==
    CASE f = coro_with_args -> 16
      [] f \in {coro_with_args_in_subcall_sub, arg_countdown} -> 4
      [] OTHER -> 0

ArgAlign(f) == IF f = coro_with_args THEN 8 ELSE 4

\* argument kinds of a co_call: none, or the int local at word 0 (&locals.cnt)
ArgNone == 0
ArgLocal == 1

Body(f) ==
    CASE f = coro_basic ->
           (470 :> Instr("local_postinc_lt", 0, 2, 490, 520) @@
            490 :> Instr("yield", 0, 0, 470, 0) @@
            520 :> Instr("end", 0, 0, 0, 0))
      [] f = coro_no_stack ->
           (810 :> Instr("static_postinc_lt", StaticCnt, 2, 830, 860) @@
            830 :> Instr("yield", 0, 0, 810, 0) @@
            860 :> Instr("end", 0, 0, 0, 0))
      [] f = coro_sub_call ->
           (1240 :> Instr("local_lt", 0, 2, 1260, 1440) @@
            1260 :> Instr("ud_inc", 1, 0, 1270, 0) @@
            1270 :> Instr("call", coro_sub_call_sub, ArgNone, 1420, 0) @@
            1420 :> Instr("local_inc", 0, 0, 1240, 0) @@
            1440 :> Instr("end", 0, 0, 0, 0))
      [] f = coro_sub_call_sub ->
           (1340 :> Instr("local_lt", 0, 2, 1360, 1400) @@
            1360 :> Instr("ud_inc", 0, 0, 1370, 0) @@
            1370 :> Instr("yield", 0, 0, 1380, 0) @@
            1380 :> Instr("local_inc", 0, 0, 1340, 0) @@
            1400 :> Instr("end", 0, 0, 0, 0))
      [] f = coro_with_args ->
           (1810 :> Instr("arg_out", 0, 0, 1830, 0) @@
            1830 :> Instr("end", 0, 0, 0, 0))
      [] f = coro_with_args_in_subcall ->
           (2110 :> Instr("local_lt", 0, 2, 2130, 2240) @@
            2130 :> Instr("call", coro_with_args_in_subcall_sub, ArgLocal, 2220, 0) @@
            2220 :> Instr("local_inc", 0, 0, 2110, 0) @@
            2240 :> Instr("end", 0, 0, 0, 0))
      [] f = coro_with_args_in_subcall_sub ->
           (2180 :> Instr("ud_add_arg", 0, 10, 2200, 0) @@
            2200 :> Instr("end", 0, 0, 0, 0))
      [] f = coro_yield_without_braces ->
           (2520 :> Instr("local_postinc_ne", 0, 2, 2530, 2580) @@
            2530 :> Instr("yield", 0, 0, 2520, 0) @@
            2580 :> Instr("end", 0, 0, 0, 0))
      [] f = coro_wait_without_braces ->
           (2890 :> Instr("local_postinc_ne", 0, 2, 2900, 2950) @@
            2900 :> Instr("wait", 0, 0, 2890, 0) @@
            2950 :> Instr("end", 0, 0, 0, 0))
      [] f = coro_early_exit ->
           (3210 :> Instr("ud_set", 0, 1, 3211, 0) @@
            3211 :> Instr("yield", 0, 0, 3220, 0) @@
            3220 :> Instr("ud_set", 0, 2, 3221, 0) @@
            3221 :> Instr("yield", 0, 0, 3230, 0) @@
            3230 :> Instr("ud_set", 0, 3, 3231, 0) @@
            3231 :> Instr("exit", 0, 0, 3240, 0) @@
            3240 :> Instr("ud_set", 0, 4, 3241, 0) @@
            3241 :> Instr("yield", 0, 0, 3260, 0) @@
            3260 :> Instr("end", 0, 0, 0, 0))
      [] f = coro_early_exit_without_braces ->
           (3470 :> Instr("ud_preinc_eq", 0, 3, 3480, 3470) @@
            3480 :> Instr("exit", 0, 0, 3470, 0) @@
            3500 :> Instr("end", 0, 0, 0, 0))
      [] f = arg_countdown ->
           (9010 :> Instr("arg_postdec_gt", 0, 0, 9020, 9040) @@
            9020 :> Instr("local_inc", 0, 0, 9030, 0) @@
            9030 :> Instr("yield", 0, 0, 9010, 0) @@
            9040 :> Instr("end", 0, 0, 0, 0))
      [] f = arg_countdown_caller ->
           (9110 :> Instr("local_lt", 0, 2, 9130, 9240) @@
            9130 :> Instr("call", arg_countdown, ArgLocal, 9220, 0) @@
            9220 :> Instr("local_inc", 0, 0, 9110, 0) @@
            9240 :> Instr("end", 0, 0, 0, 0))
      [] OTHER ->
           (4130 :> Instr("call", f - 1000, ArgNone, 4140, 0) @@
            4140 :> Instr("end", 0, 0, 0, 0))

\* the first statement after co_begin (the switch's "default:")
Entry(f) ==
    CASE f = coro_basic -> 470
      [] f = coro_no_stack -> 810
      [] f = coro_sub_call -> 1240
      [] f = coro_sub_call_sub -> 1340
      [] f = coro_with_args -> 1810
      [] f = coro_with_args_in_subcall -> 2110
      [] f = coro_with_args_in_subcall_sub -> 2180
      [] f = coro_yield_without_braces -> 2520
      [] f = coro_wait_without_braces -> 2890
      [] f = coro_early_exit -> 3210
      [] f = coro_early_exit_without_braces -> 3470
      [] f = arg_countdown -> 9010
      [] f = arg_countdown_caller -> 9110
      [] OTHER -> 4130

\* the statements that hold a "case __LINE__:" label
CaseOps == {"yield", "wait", "call"}

\* variant: a switch that ignores the stored state and starts over
DispatchFromStart(f, state) == Entry(f)

\* switch(co->call.state) { default: ... case __LINE__: ... }
Dispatch(f, state) ==
    LET labels == {pc \in DOMAIN Body(f) : Body(f)[pc].op \in CaseOps /\ pc \div 10 = state}
    IN  IF labels = {} THEN Entry(f) ELSE Body(f)[CHOOSE pc \in labels : TRUE].next

----------------------------------------------------------------------------
(* The machine record and its memory                                       *)

Fail(m, msg) == IF m.failed = "" THEN [m EXCEPT !.failed = msg] ELSE m

Ev(ev, call, pc, a, b) == [ev |-> ev, call |-> call, pc |-> pc, a |-> a, b |-> b]

\* addresses of the words of the stack buffer [stack, stack + size)
StackWords(stack, size) ==
    IF stack = 0 THEN {} ELSE {p \in stack .. (stack + size - 1) : (p - stack) % WordSize = 0}

Valid(m, p) == p \in DOMAIN m.mem \/ p \in ExtAddrs

Rd(m, p) == IF p \in DOMAIN m.mem THEN m.mem[p] ELSE m.ext[p]

Wr(m, p, v) ==
    IF p \in DOMAIN m.mem THEN [m EXCEPT !.mem[p] = v] ELSE [m EXCEPT !.ext[p] = v]

\* a field of the call-state at address call; the root's call-state is co.call
FGet(m, call, fld) ==
    IF call = CoAddr THEN m.co.call[fld] ELSE m.mem[call + Off[fld]]

FSet(m, call, fld, v) ==
    IF call = CoAddr THEN [m EXCEPT !.co.call[fld] = v]
    ELSE IF fld \in {"root", "func"}
         THEN [m EXCEPT !.mem[call + Off[fld]] = v, !.mem[call + Off[fld] + WordSize] = 0]
         ELSE [m EXCEPT !.mem[call + Off[fld]] = v]

\* the words of the block of size bytes at stack offset off (<< >> for no block)
Block(m, off, size) ==
    IF off = NONE THEN << >>
    ELSE [k \in 1 .. (size \div WordSize) |->
            LET p == m.co.stack + off + WordSize * (k - 1)
            IN  IF p \in DOMAIN m.mem THEN m.mem[p] ELSE -1]

\* log event e of the activation at e.call, with a snapshot of that
\* activation's call-state, of the high-water mark and of the waiting flag;
\* an allocation also with the root call-state and the contents of the buffer
Emit(m, e) ==
    [m EXCEPT !.trace = Append(@,
        [ev |-> e.ev, call |-> e.call, pc |-> e.pc, a |-> e.a, b |-> e.b,
         func |-> FGet(m, e.call, "func"),
         st |-> FGet(m, e.call, "state"),
         sub |-> FGet(m, e.call, "sub_call"),
         loc |-> FGet(m, e.call, "call_locals"),
         args |-> FGet(m, e.call, "call_args"),
         top |-> m.co.stack_top,
         wait |-> m.co.waiting,
         depth |-> Len(m.cs),
         lv |-> Block(m, FGet(m, e.call, "call_locals"), LocalsSize(FGet(m, e.call, "func"))),
         av |-> Block(m, FGet(m, e.call, "call_args"), ArgSize(FGet(m, e.call, "func"))),
         root |-> IF e.ev = "alloc" THEN m.co.call ELSE << >>,
         mem |-> IF e.ev = "alloc" THEN m.mem ELSE << >>])]

\* variant: nothing is copied
MemCpyNone(m, dst, src, size) == m

\* memcpy(dst, src, size), dst inside the stack buffer
MemCpy(m, dst, src, size) ==
    [m EXCEPT !.mem = [p \in DOMAIN m.mem |->
        IF p >= dst /\ p < dst + size THEN Rd(m, src + (p - dst)) ELSE m.mem[p]]]

----------------------------------------------------------------------------
(* Stack allocator and addressing (coro.h 441-475)                         *)

\* variant: an alignment that always moves to the next multiple
AlignUpNext(top, align) == LET x == top + align IN x - (x % align)

\* (top + (align - 1)) & ~(align - 1), align a power of two
AlignUp(top, align) == LET x == top + (align - 1) IN x - (x % align)

\* variant: an allocator that aligns stack_top but does not advance it
_co_stack_alloc_no_bump(m, call, size, align) ==
    LET ptr == AlignUp(m.co.stack_top, align)
        m1  == [m EXCEPT !.co.stack_top = ptr]
        m2  == IF ptr + size <= m1.co.stack + m1.co.stack_size
               THEN m1 ELSE Fail(m1, "Stack overflow in coro!")
    IN  [m |-> Emit(m2, Ev("alloc", call, 0, ptr, size)), ptr |-> ptr]

\* variant: an allocator that clears the block it hands out before it tests
\* for the overflow
_co_stack_alloc_cleared(m, call, size, align) ==
    LET ptr == AlignUp(m.co.stack_top, align)
        m1  == [m EXCEPT !.co.stack_top = ptr + size]
        m2  == IF m1.co.stack_top <= m1.co.stack + m1.co.stack_size
               THEN m1 ELSE Fail(m1, "Stack overflow in coro!")
        m3  == Emit(m2, Ev("alloc", call, 0, ptr, size))
    IN  [m |-> [m3 EXCEPT !.mem = [p \in DOMAIN m3.mem |->
                   IF p >= ptr /\ p < ptr + size THEN 0 ELSE m3.mem[p]]],
         ptr |-> ptr]

_co_stack_alloc(m, call, size, align) ==
    LET ptr == AlignUp(m.co.stack_top, align)
        m1  == [m EXCEPT !.co.stack_top = ptr + size]
        m2  == IF m1.co.stack_top <= m1.co.stack + m1.co.stack_size
               THEN m1 ELSE Fail(m1, "Stack overflow in coro!")
    IN  [m |-> Emit(m2, Ev("alloc", call, 0, ptr, size)), ptr |-> ptr]

\* variant: a rewind that takes the end of the buffer for a part of it
_co_stack_rewind_inclusive(m, call, ptr) ==
    IF ptr >= m.co.stack /\ ptr <= m.co.stack + m.co.stack_size
    THEN Emit([m EXCEPT !.co.stack_top = ptr], Ev("rewind", call, 0, ptr, 0))
    ELSE Fail(m, "ptr from outside current coro-stack is used for rewind of stack!!!")

_co_stack_rewind(m, call, ptr) ==
    IF ptr >= m.co.stack /\ ptr < m.co.stack + m.co.stack_size
    THEN Emit([m EXCEPT !.co.stack_top = ptr], Ev("rewind", call, 0, ptr, 0))
    ELSE Fail(m, "ptr from outside current coro-stack is used for rewind of stack!!!")

_co_ptr_to_stack_offset(m, call, ptr) == (ptr - m.co.stack) % U32Mod

_co_stack_offset_to_ptr(m, call, offset) == (m.co.stack + offset) % PtrMod

----------------------------------------------------------------------------
(* Call-state initialisation and co_init (coro.h 477-532)                  *)

\* variant: a _co_init_call_state that leaves the state word as it finds it
_co_init_call_state_stale(m, call, root, func, arg, arg_size, arg_align) ==
    LET m1 == FSet(FSet(FSet(FSet(FSet(m,
                  call, "root", root),
                  call, "func", func),
                  call, "sub_call", NONE),
                  call, "call_locals", NONE),
                  call, "call_args", NONE)
    IN  IF arg = 0 THEN m1
        ELSE IF m1.co.stack = 0
        THEN Fail(m1, "can't have arguments to a coroutine without a stack!")
        ELSE LET r == _co_stack_alloc(m1, call, arg_size, arg_align)
             IN  IF r.m.failed # "" THEN r.m
                 ELSE FSet(MemCpy(r.m, r.ptr, arg, arg_size),
                           call, "call_args", _co_ptr_to_stack_offset(r.m, call, r.ptr))

_co_init_call_state(m, call, root, func, arg, arg_size, arg_align) ==
    LET m1 == FSet(FSet(FSet(FSet(FSet(FSet(m,
                  call, "state", 0),
                  call, "root", root),
                  call, "func", func),
                  call, "sub_call", NONE),
                  call, "call_locals", NONE),
                  call, "call_args", NONE)
    IN  IF arg = 0 THEN m1
        ELSE IF m1.co.stack = 0
        THEN Fail(m1, "can't have arguments to a coroutine without a stack!")
        ELSE LET r == _co_stack_alloc(m1, call, arg_size, arg_align)
             IN  IF r.m.failed # "" THEN r.m
                 ELSE FSet(MemCpy(r.m, r.ptr, arg, arg_size),
                           call, "call_args", _co_ptr_to_stack_offset(r.m, call, r.ptr))

\* variant: a co_init that does not put stack_top at the start of the buffer
co_init_keep_top(m, stack, stack_size, func, arg, arg_size, arg_align) ==
    LET m1 == [m EXCEPT !.co.waiting = 0,
                        !.co.stack = stack,
                        !.co.stack_size = stack_size,
                        !.co.userdata = 0]
    IN  _co_init_call_state(m1, CoAddr, CoAddr, func, arg, arg_size, arg_align)

co_init(m, stack, stack_size, func, arg, arg_size, arg_align) ==
    LET m1 == [m EXCEPT !.co.waiting = 0,
                        !.co.stack = stack,
                        !.co.stack_top = stack,
                        !.co.stack_size = stack_size,
                        !.co.userdata = 0]
    IN  _co_init_call_state(m1, CoAddr, CoAddr, func, arg, arg_size, arg_align)

co_completed(m, call) == FGet(m, call, "state") = CORO_STATE_COMPLETED

co_waiting(m) == m.co.waiting = 1

----------------------------------------------------------------------------
(* The engine: _co_invoke_callback, the expansion of the macros inside a   *)
(* co_func, _co_sub_call and _co_call (coro.h 534-621).                    *)
(*                                                                         *)
(* m.cs is the C call stack of the running co_resume: one entry per        *)
(* co_func invocation in progress,                                         *)
(*   [call, f, ud, arg, loc, pc, at]                                       *)
(* with at = "entry"      the function has just been called,               *)
(*           "begin_sub"  it waits in co_begin for its sub-call to return, *)
(*           "run"        it is about to execute the statement at pc,      *)
(*           "call_sub"   it waits in co_call for its sub-call to return.  *)
(* Step executes the topmost invocation up to its next call or return.     *)

Top(m) == m.cs[Len(m.cs)]

SetTop(m, fr) == [m EXCEPT !.cs[Len(m.cs)] = fr]

\* return from the topmost co_func invocation
Return(m) == [m EXCEPT !.cs = SubSeq(@, 1, Len(@) - 1)]

\* variant: a co_yield that records the initial resume point
co_yield_restart(m, fr) ==
    LET m1 == FSet(m, fr.call, "state", 0)
    IN  Return(Emit(m1, Ev("ret", fr.call, fr.pc, 0, 0)))

\* co_yield: call.state = __LINE__; return
co_yield(m, fr) ==
    LET m1 == FSet(m, fr.call, "state", fr.pc \div 10)
    IN  Return(Emit(m1, Ev("ret", fr.call, fr.pc, 0, 0)))

\* variant: co_exit that records a resume point instead of completing
co_exit_as_yield(m, fr) == co_yield(m, fr)

\* co_exit: call.state = CORO_STATE_COMPLETED; return
co_exit(m, fr) ==
    LET m1 == FSet(m, fr.call, "state", CORO_STATE_COMPLETED)
    IN  Return(Emit(m1, Ev("ret", fr.call, fr.pc, 0, 0)))

\* variant: a co_wait that sets the flag and goes on with the body
co_wait_continue(m, fr) ==
    SetTop([m EXCEPT !.co.waiting = 1], [fr EXCEPT !.pc = Body(fr.f)[fr.pc].next])

\* variant: a co_wait that completes the activation instead of yielding
co_wait_exit(m, fr) == co_exit([m EXCEPT !.co.waiting = 1], fr)

\* co_wait: call.root->waiting = 1; co_yield
co_wait(m, fr) == co_yield([m EXCEPT !.co.waiting = 1], fr)

\* variant: co_locals_end without the call_locals test
co_locals_end_always(m, call, f) ==
    LET r  == _co_stack_alloc(m, call, LocalsSize(f), LocalsAlign(f))
        m1 == [r.m EXCEPT !.mem = [p \in DOMAIN r.m.mem |->
                  IF p >= r.ptr /\ p < r.ptr + LocalsSize(f)
                  THEN LocalsInit(f)[((p - r.ptr) \div WordSize) + 1]
                  ELSE r.m.mem[p]]]
    IN  IF r.m.failed # "" THEN r.m
        ELSE Emit(FSet(m1, call, "call_locals", _co_ptr_to_stack_offset(m1, call, r.ptr)),
                  Ev("locals_new", call, 0, r.ptr, 0))

\* co_locals_end: place and construct the locals when call_locals is unset
co_locals_end(m, call, f) ==
    IF FGet(m, call, "call_locals") # NONE THEN m
    ELSE LET r  == _co_stack_alloc(m, call, LocalsSize(f), LocalsAlign(f))
             m1 == [r.m EXCEPT !.mem = [p \in DOMAIN r.m.mem |->
                       IF p >= r.ptr /\ p < r.ptr + LocalsSize(f)
                       THEN LocalsInit(f)[((p - r.ptr) \div WordSize) + 1]
                       ELSE r.m.mem[p]]]
         IN  IF r.m.failed # "" THEN r.m
             ELSE Emit(FSet(m1, call, "call_locals", _co_ptr_to_stack_offset(m1, call, r.ptr)),
                       Ev("locals_new", call, 0, r.ptr, 0))

\* _co_invoke_callback: call->func((coro*)call, root->userdata, stack + call_args)
_co_invoke_callback(m, call) ==
    LET f   == FGet(m, call, "func")
        ud  == m.co.userdata
        arg == _co_stack_offset_to_ptr(m, call, FGet(m, call, "call_args"))
        fr  == [call |-> call, f |-> f, ud |-> ud, arg |-> arg, loc |-> 0, pc |-> 0,
                at |-> "entry"]
    IN  Emit([m EXCEPT !.cs = Append(@, fr)], Ev("invoke", call, f, ud, arg))

\* variant: _co_sub_call that releases the sub-call whether it completed or not
_co_sub_call_release(m, call) ==
    LET sub_call == _co_stack_offset_to_ptr(m, call, FGet(m, call, "sub_call"))
        m1 == _co_stack_rewind(m, call, sub_call)
    IN  IF m1.failed # "" THEN m1 ELSE FSet(m1, call, "sub_call", NONE)

\* variant: a _co_sub_call that unlinks a completed sub-call without
\* rewinding the stack
_co_sub_call_unlink(m, call) ==
    LET sub_call == _co_stack_offset_to_ptr(m, call, FGet(m, call, "sub_call"))
    IN  IF co_completed(m, sub_call) THEN FSet(m, call, "sub_call", NONE) ELSE m

\* variant: a _co_sub_call that rewinds to the end of the completed
\* sub-call's frame
_co_sub_call_keep_frame(m, call) ==
    LET sub_call == _co_stack_offset_to_ptr(m, call, FGet(m, call, "sub_call"))
    IN  IF co_completed(m, sub_call)
        THEN LET m1 == _co_stack_rewind(m, call, sub_call + FrameSize)
             IN  IF m1.failed # "" THEN m1 ELSE FSet(m1, call, "sub_call", NONE)
        ELSE m

\* _co_sub_call after the sub-call's function has returned: a completed
\* sub-call is released and unlinked
_co_sub_call_return(m, call) ==
    LET sub_call == _co_stack_offset_to_ptr(m, call, FGet(m, call, "sub_call"))
    IN  IF co_completed(m, sub_call)
        THEN LET m1 == _co_stack_rewind(m, call, sub_call)
             IN  IF m1.failed # "" THEN m1 ELSE FSet(m1, call, "sub_call", NONE)
        ELSE m

\* switch(co->call.state): continue the body at the dispatched statement
SwitchState(m, fr) ==
    LET pc == Dispatch(fr.f, FGet(m, fr.call, "state"))
    IN  Emit(SetTop(m, [fr EXCEPT !.pc = pc, !.at = "run"]),
             Ev("enter", fr.call, pc, fr.loc, FGet(m, fr.call, "state")))

\* variant: co_begin without the _co_sub_call test
co_begin_unchecked(m1, fr) == IF m1.failed # "" THEN m1 ELSE SwitchState(m1, fr)

\* co_begin up to the call of the sub-call's function; m1 is the machine
\* after co_locals_end, fr.loc the address of the locals
co_begin(m1, fr) ==
    IF m1.failed # "" THEN m1
    ELSE IF FGet(m1, fr.call, "sub_call") # NONE
    THEN _co_invoke_callback(SetTop(m1, [fr EXCEPT !.at = "begin_sub"]),
             _co_stack_offset_to_ptr(m1, fr.call, FGet(m1, fr.call, "sub_call")))
    ELSE SwitchState(m1, fr)

\* variant: a locals reference computed from the address the buffer had at
\* co_init
BindLocalsFixedBase(m1, fr) ==
    IF m1.failed # "" THEN fr
    ELSE [fr EXCEPT !.loc = IF m1.co.stack = 0
                            THEN _co_stack_offset_to_ptr(m1, fr.call, FGet(m1, fr.call, "call_locals"))
                            ELSE (StackBase + FGet(m1, fr.call, "call_locals")) % PtrMod]

\* the locals reference a co_func binds after co_locals_end
BindLocals(m1, fr) ==
    IF m1.failed # "" THEN fr
    ELSE [fr EXCEPT !.loc = _co_stack_offset_to_ptr(m1, fr.call, FGet(m1, fr.call, "call_locals"))]

CoFuncBegin(m1, fr) == co_begin(m1, BindLocals(m1, fr))

\* function entry: co_locals_end, then co_begin
StepEntry(m, fr) ==
    CoFuncBegin(IF LocalsInit(fr.f) = << >> THEN m ELSE co_locals_end(m, fr.call, fr.f), fr)

\* variant: a co_begin that goes on with the body whether the sub-call
\* completed or not
StepBeginSubContinue(m, fr) ==
    LET m1 == _co_sub_call_return(m, fr.call)
    IN  IF m1.failed # "" THEN m1 ELSE SwitchState(m1, fr)

\* variant: a co_begin that returns after its sub-call returned, completed
\* or not
StepBeginSubReturn(m, fr) ==
    LET m1 == _co_sub_call_return(m, fr.call)
    IN  IF m1.failed # "" THEN m1 ELSE Return(Emit(m1, Ev("begin_ret", fr.call, 0, 0, 0)))

\* co_begin after the sub-call returned: if(_co_sub_call(&co->call)) return;
StepBeginSub(m, fr) ==
    LET m1 == _co_sub_call_return(m, fr.call)
    IN  IF m1.failed # "" THEN m1
        ELSE IF FGet(m1, fr.call, "sub_call") # NONE
        THEN Return(Emit(m1, Ev("begin_ret", fr.call, 0, 0, 0)))
        ELSE SwitchState(m1, fr)

\* variant: a _co_call that links the new frame as the caller's sub-call
\* although the allocation of its argument block failed
_co_call_link_failed(m1, fr, sub_call) ==
    LET m2 == FSet(m1, fr.call, "sub_call", _co_ptr_to_stack_offset(m1, fr.call, sub_call))
    IN  IF m1.failed # "" THEN m2
        ELSE _co_invoke_callback(SetTop(m2, [fr EXCEPT !.at = "call_sub"]), sub_call)

\* _co_call, third statement up to the call of the new sub-call's function:
\* co->call.sub_call = offset of sub_call; _co_sub_call(&co->call)
_co_call_link(m1, fr, sub_call) ==
    IF m1.failed # "" THEN m1
    ELSE _co_invoke_callback(
             SetTop(FSet(m1, fr.call, "sub_call", _co_ptr_to_stack_offset(m1, fr.call, sub_call)),
                    [fr EXCEPT !.at = "call_sub"]),
             sub_call)

\* _co_call, second statement: _co_init_call_state(sub_call, root, to_call, ...)
_co_call_init(r, fr, to_call, arg, arg_size, arg_align) ==
    IF r.m.failed # "" THEN r.m
    ELSE _co_call_link(
             _co_init_call_state(r.m, r.ptr, FGet(r.m, fr.call, "root"), to_call,
                                 arg, arg_size, arg_align),
             fr, r.ptr)

\* variant: a _co_call that allocates less than sizeof(_coro_call_state)
_co_call_short_frame(m, fr, to_call, arg, arg_size, arg_align) ==
    _co_call_init(_co_stack_alloc(m, fr.call, FrameSize - 2 * WordSize, FrameAlign),
                  fr, to_call, arg, arg_size, arg_align)

\* _co_call, first statement: sub_call = _co_stack_alloc(sizeof, alignof)
_co_call(m, fr, to_call, arg, arg_size, arg_align) ==
    _co_call_init(_co_stack_alloc(m, fr.call, FrameSize, FrameAlign),
                  fr, to_call, arg, arg_size, arg_align)

\* variant: co_call that yields whatever _co_call returns
StepCallSubYield(m, fr) ==
    LET m1 == _co_sub_call_return(m, fr.call)
    IN  IF m1.failed # "" THEN m1
        ELSE co_yield(Emit(m1, Ev("call_yield", fr.call, fr.pc, 0, 0)), fr)

\* co_call after the sub-call returned: if(_co_call(...)) co_yield(co);
StepCallSub(m, fr) ==
    LET m1 == _co_sub_call_return(m, fr.call)
    IN  IF m1.failed # "" THEN m1
        ELSE IF FGet(m1, fr.call, "sub_call") # NONE
        THEN co_yield(Emit(m1, Ev("call_yield", fr.call, fr.pc, 0, 0)), fr)
        ELSE Emit(SetTop(m1, [fr EXCEPT !.pc = Body(fr.f)[fr.pc].next, !.at = "run"]),
                  Ev("call_done", fr.call, fr.pc, 0, 0))

\* the statement i at fr.pc of the body of fr.f; e is the machine with the
\* statement logged
Statement(e, fr, i) ==
    CASE i.op = "yield" -> co_yield(e, fr)
      [] i.op = "wait" -> co_wait(e, fr)
      [] i.op \in {"exit", "end"} -> co_exit(e, fr)
      [] i.op = "local_postinc_lt" ->
           IF ~Valid(e, fr.loc + WordSize * i.a) THEN Fail(e, "invalid memory access")
           ELSE SetTop(Wr(e, fr.loc + WordSize * i.a, Rd(e, fr.loc + WordSize * i.a) + 1),
                  [fr EXCEPT !.pc = IF Rd(e, fr.loc + WordSize * i.a) < i.b
                                    THEN i.next ELSE i.alt])
      [] i.op = "local_postinc_ne" ->
           IF ~Valid(e, fr.loc + WordSize * i.a) THEN Fail(e, "invalid memory access")
           ELSE SetTop(Wr(e, fr.loc + WordSize * i.a, Rd(e, fr.loc + WordSize * i.a) + 1),
                  [fr EXCEPT !.pc = IF Rd(e, fr.loc + WordSize * i.a) # i.b
                                    THEN i.next ELSE i.alt])
      [] i.op = "local_lt" ->
           IF ~Valid(e, fr.loc + WordSize * i.a) THEN Fail(e, "invalid memory access")
           ELSE SetTop(e, [fr EXCEPT !.pc = IF Rd(e, fr.loc + WordSize * i.a) < i.b
                                            THEN i.next ELSE i.alt])
      [] i.op = "local_inc" ->
           IF ~Valid(e, fr.loc + WordSize * i.a) THEN Fail(e, "invalid memory access")
           ELSE SetTop(Wr(e, fr.loc + WordSize * i.a, Rd(e, fr.loc + WordSize * i.a) + 1),
                  [fr EXCEPT !.pc = i.next])
      [] i.op = "static_postinc_lt" ->
           SetTop(Wr(e, i.a, Rd(e, i.a) + 1),
                  [fr EXCEPT !.pc = IF Rd(e, i.a) < i.b THEN i.next ELSE i.alt])
      [] i.op = "ud_inc" ->
           IF ~Valid(e, fr.ud + WordSize * i.a) THEN Fail(e, "invalid memory access")
           ELSE SetTop(Wr(e, fr.ud + WordSize * i.a, Rd(e, fr.ud + WordSize * i.a) + 1),
                  [fr EXCEPT !.pc = i.next])
      [] i.op = "ud_set" ->
           IF ~Valid(e, fr.ud + WordSize * i.a) THEN Fail(e, "invalid memory access")
           ELSE SetTop(Wr(e, fr.ud + WordSize * i.a, i.b), [fr EXCEPT !.pc = i.next])
      [] i.op = "ud_preinc_eq" ->
           IF ~Valid(e, fr.ud + WordSize * i.a) THEN Fail(e, "invalid memory access")
           ELSE SetTop(Wr(e, fr.ud + WordSize * i.a, Rd(e, fr.ud + WordSize * i.a) + 1),
                  [fr EXCEPT !.pc = IF Rd(e, fr.ud + WordSize * i.a) + 1 = i.b
                                    THEN i.next ELSE i.alt])
      [] i.op = "ud_add_arg" ->
           IF ~(Valid(e, fr.ud) /\ Valid(e, fr.arg)) THEN Fail(e, "invalid memory access")
           ELSE SetTop(Wr(e, fr.ud, Rd(e, fr.ud) + Rd(e, fr.arg) + i.b),
                  [fr EXCEPT !.pc = i.next])
      [] i.op = "arg_out" ->
           IF ~(Valid(e, fr.arg) /\ Valid(e, fr.arg + 8)) THEN Fail(e, "invalid memory access")
           ELSE IF ~Valid(e, Rd(e, fr.arg + 8)) THEN Fail(e, "invalid memory access")
           ELSE SetTop(Wr(e, Rd(e, fr.arg + 8), Rd(e, fr.arg)), [fr EXCEPT !.pc = i.next])
      [] i.op = "arg_postdec_gt" ->
           IF ~Valid(e, fr.arg) THEN Fail(e, "invalid memory access")
           ELSE SetTop(Wr(e, fr.arg, Rd(e, fr.arg) - 1),
                  [fr EXCEPT !.pc = IF Rd(e, fr.arg) > i.b THEN i.next ELSE i.alt])
      [] i.op = "call" ->
           IF i.b = ArgNone THEN _co_call(e, fr, i.a, 0, 0, 0)
           ELSE _co_call(e, fr, i.a, fr.loc, ArgSize(i.a), ArgAlign(i.a))

StepRun(m, fr) ==
    Statement(Emit(m, Ev(Body(fr.f)[fr.pc].op, fr.call, fr.pc, 0, 0)), fr, Body(fr.f)[fr.pc])

Step(m) ==
    LET fr == Top(m)
    IN  CASE fr.at = "entry" -> StepEntry(m, fr)
          [] fr.at = "begin_sub" -> StepBeginSub(m, fr)
          [] fr.at = "run" -> StepRun(m, fr)
          [] fr.at = "call_sub" -> StepCallSub(m, fr)

\* run until the outermost co_func invocation has returned (or an assertion fired)
RECURSIVE Run(_)
Run(m) == IF m.cs = << >> \/ m.failed # "" THEN m ELSE Run(Step(m))

\* variant: a co_resume that leaves the userdata in the root
KeepUserdata(m1) == m1

\* co_resume, last statement: co->userdata = nullptr
ClearUserdata(m1) == IF m1.failed # "" THEN m1 ELSE [m1 EXCEPT !.co.userdata = 0]

\* variant: co_resume that tests the assertion after its first two stores
co_resume_late_assert(m, userdata) ==
    IF co_completed(m, CoAddr)
    THEN Fail([m EXCEPT !.co.waiting = 0, !.co.userdata = userdata],
              "can't resume a completed coroutine!")
    ELSE ClearUserdata(Run(_co_invoke_callback(
             [m EXCEPT !.co.waiting = 0, !.co.userdata = userdata], CoAddr)))

\* variant: co_resume that leaves the waiting flag as it is
co_resume_keep_waiting(m, userdata) ==
    IF co_completed(m, CoAddr) THEN Fail(m, "can't resume a completed coroutine!")
    ELSE ClearUserdata(Run(_co_invoke_callback([m EXCEPT !.co.userdata = userdata], CoAddr)))

co_resume(m, userdata) ==
    IF co_completed(m, CoAddr) THEN Fail(m, "can't resume a completed coroutine!")
    ELSE ClearUserdata(Run(_co_invoke_callback(
             [m EXCEPT !.co.waiting = 0, !.co.userdata = userdata], CoAddr)))

----------------------------------------------------------------------------
(* The embedding program: the test bodies that set up a coroutine, drive   *)
(* it with co_resume and own the userdata and argument objects.            *)

\* "int output = 7331;" and "a.input = 1337;" of coro_with_args
InitialOutput == 7331
InitialInput == 1337

\* contents of a stack array before anything is written to it
Fills == {0, 205}

\* sizeof(stack) of the buffers handed to co_init; 0 goes with stack == nullptr
StackSizes == {0, 40, 80}

\* the (stack, stack_size) pairs handed to co_init: nullptr with 0, and a
\* buffer of each size, one of them empty
Buffers == {<<IF size = 0 THEN 0 ELSE StackBase, size>> : size \in StackSizes}
             \cup {<<StackBase, 0>>}

RootFuncs == {coro_basic, coro_no_stack, coro_sub_call, coro_with_args, coro_with_args_in_subcall,
              coro_yield_without_braces, coro_wait_without_braces,
              coro_early_exit, coro_early_exit_without_braces,
              arg_countdown, arg_countdown_caller,
              call_in_call(coro_wait_without_braces),
              call_in_call(call_in_call(coro_wait_without_braces)),
              call_in_call(coro_early_exit),
              call_in_call(coro_early_exit_without_braces),
              call_in_call(coro_sub_call)}

Userdatas == {UdA, UdB}

\* values the caller's "a.input" takes
InputsOf(func) == IF func = arg_countdown THEN 0 .. MaxCount ELSE {InitialInput}

\* the arg, arg_size, arg_align the test passes to co_init for func
ArgOf(func) ==
    IF func \in {coro_with_args, arg_countdown}
    THEN <<ArgVar, ArgSize(func), ArgAlign(func)>>
    ELSE <<0, 0, 0>>

M == [co |-> co, mem |-> mem, ext |-> ext, trace |-> trace, failed |-> failed, cs |-> << >>]

\* the test body up to and including co_init
Setup(func, buf, fill, input) ==
    LET stack == buf[1]
        size == buf[2]
        m0 == [co |-> [call |-> [root |-> 0, func |-> 0, state |-> 0, sub_call |-> 0,
                                 call_locals |-> 0, call_args |-> 0],
                       waiting |-> 0, stack_size |-> 0, stack_top |-> 0,
                       stack |-> 0, userdata |-> 0],
               mem |-> [p \in StackWords(stack, size) |-> fill],
               ext |-> [p \in ExtAddrs |->
                          CASE p = OutAddr -> InitialOutput
                            [] p = ArgVar -> input
                            [] p = ArgVar + 8 -> OutAddr
                            [] OTHER -> 0],
               trace |-> << >>,
               failed |-> "",
               cs |-> << >>]
    IN  co_init(m0, stack, size, func, ArgOf(func)[1], ArgOf(func)[2], ArgOf(func)[3])

----------------------------------------------------------------------------
(* Stack replacement: co_replace_stack is called by test_coro.cpp 380-547  *)
(* and is not defined in coro.h; it is modelled from section 4.7 of the    *)
(* specification.                                                          *)

\* uint8_t stack2[256] of the overflow tests (scaled)
NewStackBase == 8192

NewStackSize == 120

\* copies the old buffer's bytes to the same offsets of the new buffer, moves
\* the root's base, capacity and high-water mark to it, returns the old buffer
co_replace_stack(m, new_stack, new_size, fill) ==
    LET old == m.co.stack
        copied == [p \in StackWords(new_stack, new_size) |->
                     IF (old + (p - new_stack)) \in DOMAIN m.mem
                     THEN m.mem[old + (p - new_stack)] ELSE fill]
    IN  [m |-> [m EXCEPT !.mem = copied,
                         !.co.stack = new_stack,
                         !.co.stack_size = new_size,
                         !.co.stack_top = new_stack + (m.co.stack_top - old)],
         old |-> old]

\* the yield or wait at which a resume suspended, if any
Suspensions(t) == {k \in 1 .. Len(t) : t[k].ev \in {"yield", "wait"}}

NoSusp == [ev |-> "none", call |-> 0, pc |-> 0, a |-> 0, b |-> 0, func |-> 0, st |-> 0, sub |-> 0,
           loc |-> 0, args |-> 0, top |-> 0, wait |-> 0, depth |-> 0,
           lv |-> << >>, av |-> << >>, root |-> << >>, mem |-> << >>]

SuspOf(t) == IF Suspensions(t) = {} THEN NoSusp ELSE t[CHOOSE k \in Suspensions(t) : TRUE]

Install(m) ==
    /\ co' = m.co
    /\ mem' = m.mem
    /\ ext' = m.ext
    /\ trace' = m.trace
    /\ failed' = m.failed

Init ==
    \E func \in RootFuncs, buf \in Buffers, fill \in Fills :
      \E input \in InputsOf(func) :
        LET m == Setup(func, buf, fill, input)
        IN  /\ co = m.co
            /\ mem = m.mem
            /\ ext = m.ext
            /\ trace = m.trace
            /\ failed = m.failed
            /\ resumes = 0
            /\ prev = << >>
            /\ input0 = input
            /\ suspended = 0

\* a fresh test body: new objects, co_init
CoInit ==
    /\ failed = ""
    /\ \E func \in RootFuncs, buf \in Buffers, fill \in Fills :
         \E input \in InputsOf(func) :
           /\ Install(Setup(func, buf, fill, input))
           /\ resumes' = 0
           /\ prev' = << >>
           /\ input0' = input
           /\ suspended' = 0

\* co_resume(&co, userdata) on a coroutine that has not completed
CoResume ==
    /\ failed = ""
    /\ ~co_completed(M, CoAddr)
    /\ \E userdata \in Userdatas :
         /\ Install(co_resume([M EXCEPT !.trace = << >>], userdata))
         /\ resumes' = resumes + 1
         /\ prev' = trace
         /\ suspended' = suspended + Cardinality(Suspensions(trace'))
         /\ UNCHANGED input0

\* co_resume(&co, userdata) on a completed coroutine: the assertion fires
CoResumeCompleted ==
    /\ failed = ""
    /\ co_completed(M, CoAddr)
    /\ \E userdata \in Userdatas :
         /\ Install(co_resume(M, userdata))
         /\ UNCHANGED <<resumes, prev, input0, suspended>>

\* the caller changes the variable it passed as argument
HostWrite ==
    /\ failed = ""
    /\ \E v \in 0 .. MaxCount :
         /\ ext[ArgVar] # v
         /\ ext' = [ext EXCEPT ![ArgVar] = v]
    /\ UNCHANGED <<co, mem, trace, failed, resumes, prev, input0, suspended>>

\* ASSERT_EQ(stack1, co_replace_stack(&co, stack2, sizeof(stack2)))
ReplaceStack ==
    /\ failed = ""
    /\ co.stack # NewStackBase
    /\ co.stack_size < NewStackSize
    /\ \E fill \in Fills :
         Install(co_replace_stack(M, NewStackBase, NewStackSize, fill).m)
    /\ UNCHANGED <<resumes, prev, input0, suspended>>

Next == CoInit \/ CoResume \/ CoResumeCompleted \/ HostWrite

Spec == Init /\ [][Next]_vars

\* the embedding program with the overflow tests' replacement of the buffer
NextReplace == Next \/ ReplaceStack

SpecReplace == Init /\ [][NextReplace]_vars

----------------------------------------------------------------------------
(* The driver loop "while(!co_completed(&co)) co_resume(&co, u);" of the   *)
(* tests (test_coro.cpp 96-98 and the like) after a co_init: nothing else  *)
(* touches the coroutine, and the loop goes round as long as its condition *)
(* holds.                                                                  *)

\* iterations of the driver loop that are followed
MaxResumes == 12

DriverLoop ==
    /\ resumes < MaxResumes
    /\ CoResume

NextDriver == DriverLoop

\* what a step of the loop is to the loop itself: its condition held and
\* one more co_resume was made
Iteration ==
    /\ failed = ""
    /\ ~co_completed(M, CoAddr)
    /\ resumes < MaxResumes
    /\ resumes' = resumes + 1

\* the loop does not stop while its condition holds
SpecDriver == Init /\ [][NextDriver]_vars /\ WF_resumes(Iteration)

----------------------------------------------------------------------------
(* The allocator on its own: _co_stack_alloc applied to a coroutine whose  *)
(* high-water mark is anywhere in its buffer                               *)

\* largest size requested
MaxAllocSize == 5

\* alignof of the requested type
Alignments == {1, 2, 4, 8, 16}

\* capacity of the buffer the requests are served from
AllocCapacity == 40

\* a coroutine right after co_init whose stack_top was advanced to mark
AllocInit ==
    \E mark \in StackBase .. StackBase + AllocCapacity, fill \in Fills :
        LET m == Setup(coro_basic, <<StackBase, AllocCapacity>>, fill, InitialInput)
        IN  /\ co = [m.co EXCEPT !.stack_top = mark]
            /\ mem = m.mem
            /\ ext = m.ext
            /\ trace = << >>
            /\ failed = ""
            /\ resumes = 0
            /\ prev = << >>
            /\ input0 = 0
            /\ suspended = 0

\* _co_stack_alloc(&co->call, size, align); input0 keeps the alignment asked
\* for, prev the log of the request before
AllocStep ==
    /\ failed = ""
    /\ \E size \in 0 .. MaxAllocSize, align \in Alignments :
         /\ Install(_co_stack_alloc([M EXCEPT !.trace = << >>], CoAddr, size, align).m)
         /\ input0' = align
    /\ prev' = trace
    /\ UNCHANGED <<resumes, suspended>>

SpecAlloc == AllocInit /\ [][AllocStep]_vars

----------------------------------------------------------------------------
(* Observations on the state and on the logs                               *)

Ok == failed = ""

Done == co_completed(M, CoAddr)

RootFunc == co.call.func

Idx(t) == 1 .. Len(t)

\* the events of log t after / before event k that belong to the call-state
\* at address c
Later(t, k, c) == {j \in Idx(t) : j > k /\ t[j].call = c}

Earlier(t, k, c) == {j \in Idx(t) : j < k /\ t[j].call = c}

Least(S) == CHOOSE j \in S : \A i \in S : j <= i

Greatest(S) == CHOOSE j \in S : \A i \in S : j >= i

\* event k of log t is the return of an activation that completed
Completing(t, k) == t[k].ev = "ret" /\ t[k].st = CORO_STATE_COMPLETED

\* event k of the current log is the first invocation of an activation:
\* the root's in the first resume, a sub-call's right after _co_call
\* allocated its call-state (and its argument block)
FirstInvocation(k) ==
    /\ trace[k].ev = "invoke"
    /\ IF trace[k].call = CoAddr THEN resumes = 1 ELSE k > 1 /\ trace[k - 1].ev = "alloc"

\* the call statement of function f whose __LINE__ is line
CallSites(f, line) ==
    {pc \in DOMAIN Body(f) : Body(f)[pc].op = "call" /\ pc \div 10 = line}

----------------------------------------------------------------------------
(* C1                                                                      *)

NoSubCallFuncs == {coro_basic, coro_no_stack, coro_with_args, coro_yield_without_braces,
                   coro_wait_without_braces, coro_early_exit,
                   coro_early_exit_without_braces, arg_countdown}

\* the number of co_yield points the execution of f passes before it completes
YieldsOf(f) ==
    CASE f \in {coro_basic, coro_no_stack, coro_yield_without_braces,
                coro_wait_without_braces} -> Body(f)[Entry(f)].b
      [] f = coro_early_exit ->
           Cardinality({pc \in DOMAIN Body(f) : Body(f)[pc].op = "yield" /\ pc < 3231})
      [] f = arg_countdown -> input0
      [] OTHER -> 0

\* the statement at which the last resume entered the root's body
ContinuesAt(pc) ==
    \E k \in Idx(trace) :
       /\ trace[k].ev = "enter" /\ trace[k].pc = pc
       /\ \A j \in Idx(trace) : trace[j].ev = "enter" => j = k
       /\ k < Len(trace) /\ trace[k + 1].pc = pc
       /\ trace[k + 1].ev = Body(RootFunc)[pc].op

\* C1: a coroutine function without sub-calls that passes N co_yield points
\* before it completes is not completed after co_init and after each of the
\* first N resumes, is completed after resume N + 1, and every resume
\* continues with the statement right after the yield point at which the
\* previous resume suspended (the first one with the first statement).
C1_YieldsAndResumes ==
    (Ok /\ RootFunc \in NoSubCallFuncs) =>
       /\ resumes <= YieldsOf(RootFunc) + 1
       /\ Done <=> (resumes = YieldsOf(RootFunc) + 1)
       /\ resumes = 1 => ContinuesAt(Entry(RootFunc))
       /\ resumes > 1 =>
            /\ SuspOf(prev).ev \in {"yield", "wait"}
            /\ ContinuesAt(Body(RootFunc)[SuspOf(prev).pc].next)

C1_Witness ==
    /\ Ok /\ Done /\ RootFunc = coro_basic /\ resumes = 3
    /\ SuspOf(prev).pc = 490

----------------------------------------------------------------------------
(* C2                                                                      *)

ResumeRejected == "can't resume a completed coroutine!"

\* C2: once the coroutine is completed every step except a fresh co_init
\* (the only step that sets resumes to 0) leaves it completed, and a
\* co_resume of it fails the assertion with the coro object, the stack
\* memory, the objects of the caller and the log all unchanged: the waiting
\* flag is not cleared, userdata is not stored, no function is invoked.
C2_CompletionAbsorbing ==
    [][(Ok /\ Done) =>
          \/ resumes' = 0
          \/ /\ co'.call.state = CORO_STATE_COMPLETED
             /\ failed' # failed =>
                  /\ failed' = ResumeRejected
                  /\ co' = co /\ mem' = mem /\ ext' = ext /\ trace' = trace]_vars

C2_Witness ==
    /\ failed = ResumeRejected /\ Done
    /\ co.waiting = 0 /\ co.userdata = 0

----------------------------------------------------------------------------
(* C3                                                                      *)

\* the loop bounds of coro_sub_call and of its sub-coroutine
C3_K == Body(coro_sub_call)[Entry(coro_sub_call)].b

C3_M == Body(coro_sub_call_sub)[Entry(coro_sub_call_sub)].b

\* test_state.coro_sub_call_loop and coro_sub_call_sub_loop, over both
\* userdata objects a resume may have been handed
ParentCounter == ext[UdA + WordSize] + ext[UdB + WordSize]

SubCounter == ext[UdA] + ext[UdB]

\* C3: with a parent that loops K = 2 times and co_calls in each iteration a
\* sub-coroutine that yields M = 2 times, the parent's counter never exceeds
\* K and the sub-coroutine's never K * M, and when the root is completed they
\* are exactly K = 2 and K * M = 4.
C3_SubCallCounters ==
    (Ok /\ RootFunc \in {coro_sub_call, call_in_call(coro_sub_call)}) =>
       /\ C3_K = 2 /\ C3_M = 2
       /\ ParentCounter <= C3_K
       /\ SubCounter <= C3_K * C3_M
       /\ Done => (ParentCounter = C3_K /\ SubCounter = C3_K * C3_M)

C3_Witness ==
    /\ Ok /\ Done /\ RootFunc = coro_sub_call
    /\ ParentCounter = 2 /\ SubCounter = 4 /\ resumes = 5

----------------------------------------------------------------------------
(* C4                                                                      *)

\* event k: a sub-call activation returns to its parent without having completed
PendingReturn(k) ==
    /\ trace[k].ev \in {"ret", "begin_ret"}
    /\ trace[k].call # CoAddr
    /\ trace[k].st # CORO_STATE_COMPLETED

\* event k: an activation is invoked while its sub-call link is set
InvokedWithSubCall(k) == trace[k].ev = "invoke" /\ trace[k].sub # NONE

\* C4: when a sub-call returns without having completed, its parent suspends:
\* at the call site by storing the call site's line and returning, in co_begin
\* by returning, and that is the parent's last event of the resume.  An
\* activation invoked with its sub-call link set invokes the call-state the
\* link names at once, the link being the one it had when it suspended, and
\* its next own event is the return or the release of that sub-call: no
\* allocation, no call site, no body statement of its own.
C4_PendingSubCall ==
    Ok => \A k \in Idx(trace) :
       /\ PendingReturn(k) =>
            /\ k < Len(trace)
            /\ trace[k + 1].sub # NONE
            /\ trace[k].call = _co_stack_offset_to_ptr(M, CoAddr, trace[k + 1].sub)
            /\ LET c == trace[k + 1].call
                   before == trace[Greatest(Earlier(trace, k, c))]
               IN  IF before.ev = "alloc"
                   THEN /\ trace[k + 1].ev = "call_yield"
                        /\ k + 2 <= Len(trace)
                        /\ trace[k + 2].ev = "ret" /\ trace[k + 2].call = c
                        /\ trace[k + 2].st = trace[k + 1].pc \div 10
                        /\ trace[k + 2].sub = trace[k + 1].sub
                        /\ Later(trace, k + 2, c) = {}
                   ELSE /\ before.ev = "invoke"
                        /\ trace[k + 1].ev = "begin_ret"
                        /\ Later(trace, k + 1, c) = {}
       /\ InvokedWithSubCall(k) =>
            /\ ~FirstInvocation(k)
            /\ k < Len(trace)
            /\ trace[k + 1].ev = "invoke"
            /\ trace[k + 1].call = _co_stack_offset_to_ptr(M, CoAddr, trace[k].sub)
            /\ ~FirstInvocation(k + 1)
            /\ Later(prev, 0, trace[k].call) # {}
            /\ prev[Greatest(Later(prev, 0, trace[k].call))].sub = trace[k].sub
            /\ Later(trace, k, trace[k].call) # {}
            /\ trace[Least(Later(trace, k, trace[k].call))].ev \in {"begin_ret", "rewind"}

C4_Witness ==
    /\ Ok /\ RootFunc = coro_sub_call /\ resumes = 2
    /\ InvokedWithSubCall(1)
    /\ trace[Len(trace)].ev = "begin_ret"
    /\ \E k \in Idx(prev) : prev[k].ev = "call_yield"

----------------------------------------------------------------------------
(* C5                                                                      *)

\* roots whose sub-calls contain no co_yield and no co_wait
NonYieldingSubCallFuncs == {coro_with_args_in_subcall,
                            call_in_call(coro_early_exit_without_braces)}

\* event k: a sub-call activation returns completed
CompletedReturn(k) == Completing(trace, k) /\ trace[k].call # CoAddr

\* C5: when a sub-call returns completed, the parent releases it, its
\* sub-call link is the sentinel from then on, and its next event is the
\* statement that follows the call site, in the same resume, whether the
\* parent had reached the sub-call from the call site or from co_begin.  A root
\* whose sub-calls never yield is completed after one co_resume.
C5_SubCallCompletes ==
    Ok =>
       /\ \A k \in Idx(trace) : CompletedReturn(k) =>
            /\ k + 3 <= Len(trace)
            /\ trace[k + 1].ev = "rewind" /\ trace[k + 1].a = trace[k].call
            /\ trace[k + 2].call = trace[k + 1].call
            /\ trace[k + 2].sub = NONE
            /\ trace[k + 3].call = trace[k + 1].call
            /\ trace[k + 3].sub = NONE
            /\ LET f == trace[k + 2].func
                   sites == IF trace[k + 2].ev = "call_done" THEN {trace[k + 2].pc}
                            ELSE CallSites(f, trace[k + 2].st)
               IN  /\ trace[k + 2].ev \in {"call_done", "enter"}
                   /\ \E site \in sites :
                        /\ trace[k + 3].pc = Body(f)[site].next
                        /\ trace[k + 3].ev = Body(f)[Body(f)[site].next].op
       /\ (RootFunc \in NonYieldingSubCallFuncs /\ resumes >= 1) => (Done /\ resumes = 1)

C5_Witness ==
    /\ Ok /\ Done /\ RootFunc = arg_countdown_caller /\ resumes = 2
    /\ \E k \in Idx(trace) : CompletedReturn(k) /\ trace[k + 2].ev = "enter"
    /\ \E k \in Idx(prev) : Completing(prev, k) /\ prev[k + 2].ev = "call_done"

----------------------------------------------------------------------------
(* C6                                                                      *)

\* C6: after a co_resume the root's waiting flag is set exactly when the
\* activation that suspended in that resume, at whatever depth, executed
\* co_wait; it is clear after a co_yield and after completion.  During the
\* resume the flag is clear from the first invocation up to that co_wait.
C6_WaitingFlag ==
    (Ok /\ resumes >= 1) =>
       /\ co_waiting(M) <=> (SuspOf(trace).ev = "wait")
       /\ Done => ~co_waiting(M)
       /\ trace[1].ev = "invoke" /\ trace[1].wait = 0
       /\ \A k \in Idx(trace) :
            trace[k].wait = 1 => \E j \in 1 .. (k - 1) : trace[j].ev = "wait"

C6_Witness ==
    /\ Ok /\ co_waiting(M) /\ ~Done
    /\ RootFunc = call_in_call(call_in_call(coro_wait_without_braces))
    /\ SuspOf(trace).ev = "wait" /\ SuspOf(trace).depth = 3
    /\ SuspOf(prev).ev = "wait"

----------------------------------------------------------------------------
(* C7                                                                      *)

\* the statements of f that follow a co_exit of f in its body
AfterExit(f) ==
    {pc \in DOMAIN Body(f) :
       \E x \in DOMAIN Body(f) : Body(f)[x].op = "exit" /\ pc > x}

\* C7: an activation that executes co_exit is completed when it returns, which
\* is its next event; a root's resume ends there, a sub-call's parent is not
\* completed when it releases the sub-call.  The statements after the
\* co_exit are executed in no resume: the value coro_early_exit stores
\* after its co_exit is never seen.
C7_EarlyExit ==
    Ok =>
       /\ \A k \in Idx(trace) :
            /\ trace[k].ev = "exit" =>
                 /\ trace[k].st # CORO_STATE_COMPLETED
                 /\ k < Len(trace)
                 /\ trace[k + 1].ev = "ret" /\ trace[k + 1].call = trace[k].call
                 /\ trace[k + 1].st = CORO_STATE_COMPLETED
                 /\ IF trace[k].call = CoAddr THEN k + 1 = Len(trace)
                    ELSE /\ k + 2 <= Len(trace)
                         /\ trace[k + 2].ev = "rewind"
                         /\ trace[k + 2].call # trace[k].call
                         /\ trace[k + 2].st # CORO_STATE_COMPLETED
            /\ trace[k].pc \notin AfterExit(trace[k].func)
       /\ RootFunc \in {coro_early_exit, call_in_call(coro_early_exit)} =>
            /\ ext[UdA] \in 0 .. 3 /\ ext[UdB] \in 0 .. 3
            /\ Done => (ext[UdA] = 3 \/ ext[UdB] = 3)

C7_Witness ==
    /\ Ok /\ Done /\ RootFunc = call_in_call(coro_early_exit)
    /\ \E k \in Idx(trace) : trace[k].ev = "exit" /\ trace[k].call # CoAddr
    /\ resumes = 3

----------------------------------------------------------------------------
(* C8                                                                      *)

\* the locals an activation has after the statement of event e
LocalsAfter(e) ==
    IF e.ev \in {"local_inc", "local_postinc_lt", "local_postinc_ne"}
    THEN [e.lv EXCEPT ![Body(e.func)[e.pc].a + 1] = @ + 1]
    ELSE e.lv

\* C8: the locals are allocated and constructed only between an activation's
\* first invocation and its co_begin, and on every first invocation of a
\* function that declares locals.  A later invocation allocates nothing and
\* finds the locals at the offset and with the contents the activation had
\* at its last event of the resume before; within a resume offset and
\* contents change from one event of the activation to its next only by the
\* activation's own statement, whatever its sub-calls did in between.
C8_LocalsPersist ==
    Ok => \A k \in Idx(trace) :
       /\ trace[k].ev = "locals_new" =>
            /\ k >= 3
            /\ trace[k - 1].ev = "alloc" /\ trace[k - 1].call = trace[k].call
            /\ trace[k - 2].call = trace[k].call /\ FirstInvocation(k - 2)
            /\ trace[k].loc = _co_ptr_to_stack_offset(M, CoAddr, trace[k - 1].a)
            /\ trace[k].lv = LocalsInit(trace[k].func)
       /\ (trace[k].ev = "invoke" /\ LocalsInit(trace[k].func) # << >>) =>
            IF FirstInvocation(k)
            THEN /\ trace[k].loc = NONE
                 /\ k + 2 <= Len(trace)
                 /\ trace[k + 2].ev = "locals_new" /\ trace[k + 2].call = trace[k].call
            ELSE /\ trace[k].loc # NONE
                 /\ k < Len(trace) /\ trace[k + 1].ev # "alloc"
                 /\ Later(prev, 0, trace[k].call) # {}
                 /\ LET last == prev[Greatest(Later(prev, 0, trace[k].call))]
                    IN  trace[k].loc = last.loc /\ trace[k].lv = LocalsAfter(last)
       /\ (trace[k].loc # NONE /\ ~Completing(trace, k)
             /\ Later(trace, k, trace[k].call) # {}) =>
            LET next == trace[Least(Later(trace, k, trace[k].call))]
            IN  next.loc = trace[k].loc /\ next.lv = LocalsAfter(trace[k])

C8_Witness ==
    /\ Ok /\ Done /\ RootFunc = coro_sub_call /\ resumes = 5
    /\ trace[1].lv = <<1>> /\ trace[1].sub # NONE
    /\ Block(M, co.call.call_locals, LocalsSize(RootFunc)) = <<2>>

----------------------------------------------------------------------------
(* C9                                                                      *)

\* the words of the caller's "args a" at co_init: input is the only member
\* the caller changes afterwards
ArgAtInit == <<input0, ext[ArgVar + 4], ext[ArgVar + 8], ext[ArgVar + 12]>>

RootArgs == Block(M, co.call.call_args, ArgSize(RootFunc))

\* ASSERT_EQ(21, coro_with_args_in_subcall_sum)
ExpectedSum == 21

\* C9: the root's argument block holds the caller's data as it was at
\* co_init, whatever the caller stored in its variable since; coro_with_args
\* writes that input to output.  A sub-call called with the parent's local
\* is invoked with an argument block equal to that local at the call, and
\* the sub-calls of coro_with_args_in_subcall add up to 21.
C9_ArgumentsCopied ==
    Ok =>
       /\ (RootFunc \in {coro_with_args, arg_countdown} /\ resumes = 0) =>
            RootArgs = SubSeq(ArgAtInit, 1, ArgSize(RootFunc) \div WordSize)
       /\ RootFunc = coro_with_args =>
            /\ RootArgs = ArgAtInit
            /\ ext[OutAddr] = IF Done THEN input0 ELSE InitialOutput
       /\ \A k \in Idx(trace) :
            (trace[k].ev = "call" /\ Body(trace[k].func)[trace[k].pc].b = ArgLocal) =>
               /\ k + 3 <= Len(trace)
               /\ trace[k + 3].ev = "invoke" /\ FirstInvocation(k + 3)
               /\ trace[k + 3].pc = Body(trace[k].func)[trace[k].pc].a
               /\ trace[k + 3].b = _co_stack_offset_to_ptr(M, CoAddr, trace[k + 3].args)
               /\ trace[k + 3].av = SubSeq(trace[k].lv, 1, 1)
       /\ (RootFunc = coro_with_args_in_subcall /\ Done) =>
            ext[UdA] + ext[UdB] = ExpectedSum

C9_Witness ==
    /\ Ok /\ Done /\ RootFunc = coro_with_args
    /\ ext[ArgVar] # input0 /\ ext[OutAddr] = input0
    /\ prev # << >>

----------------------------------------------------------------------------
(* C10                                                                     *)

\* the argument block an activation has after the statement of event e
ArgsAfter(e) ==
    IF e.ev = "arg_postdec_gt" THEN [e.av EXCEPT ![1] = @ - 1] ELSE e.av

\* C10: on its first invocation an activation's argument block is where
\* _co_init_call_state allocated it.  From one event of an activation to its
\* next, and from its last event of a resume to its invocation in the next
\* resume, the offset of the block stays and its contents change only by the
\* activation's own write.  The counting coroutine's argument is its start
\* value minus one per resume.
C10_ArgumentsPersist ==
    Ok =>
       /\ \A k \in Idx(trace) :
            /\ (trace[k].ev = "invoke" /\ trace[k].args # NONE) =>
                 LET c == trace[k].call
                 IN  IF FirstInvocation(k)
                     THEN LET made == IF c = CoAddr THEN prev[Len(prev)] ELSE trace[k - 1]
                          IN  /\ made.ev = "alloc" /\ made.call = c
                              /\ trace[k].args = _co_ptr_to_stack_offset(M, CoAddr, made.a)
                     ELSE /\ Later(prev, 0, c) # {}
                          /\ LET last == prev[Greatest(Later(prev, 0, c))]
                             IN  trace[k].args = last.args /\ trace[k].av = ArgsAfter(last)
            /\ (trace[k].args # NONE /\ ~Completing(trace, k)
                  /\ Later(trace, k, trace[k].call) # {}) =>
                 LET next == trace[Least(Later(trace, k, trace[k].call))]
                 IN  next.args = trace[k].args /\ next.av = ArgsAfter(trace[k])
       /\ (RootFunc = arg_countdown /\ resumes >= 1) =>
            /\ RootArgs = <<input0 - resumes>>
            /\ RootArgs = ArgsAfter(trace[Len(trace)])

C10_Witness ==
    /\ Ok /\ Done /\ RootFunc = arg_countdown /\ input0 = 2 /\ resumes = 3
    /\ RootArgs = <<-1>>
    /\ ext[ArgVar] # input0

----------------------------------------------------------------------------
(* C11                                                                     *)

\* C11: every invocation of an activation that was created without an
\* argument receives a null arg pointer.
C11_NullArgWithoutArgument ==
    \A k \in Idx(trace) :
        (trace[k].ev = "invoke" /\ trace[k].args = NONE) => trace[k].b = 0

----------------------------------------------------------------------------
(* C12                                                                     *)

\* the root was initialised with an argument
RootHasArg == ArgOf(RootFunc)[1] # 0

\* C12: until the first co_resume no coroutine function has been invoked and
\* the coroutine is not completed, not waiting, has no sub-call and no locals,
\* its userdata is null and its high-water mark is the start of the buffer
\* plus the argument block, which is the only thing allocated.  co_init with
\* an argument fails when the buffer is null or holds no bytes.
C12_InitLeavesFresh ==
    resumes = 0 =>
       /\ Ok =>
            /\ \A k \in Idx(trace) : trace[k].ev = "alloc" /\ trace[k].call = CoAddr
            /\ Len(trace) = IF RootHasArg THEN 1 ELSE 0
            /\ ~Done /\ ~co_waiting(M)
            /\ co.call.state # CORO_STATE_COMPLETED
            /\ co.call.sub_call = NONE /\ co.call.call_locals = NONE
            /\ co.call.call_args = IF RootHasArg THEN 0 ELSE NONE
            /\ co.userdata = 0
            /\ co.stack_top = co.stack + ArgOf(RootFunc)[2]
            /\ RootArgs = SubSeq(ArgAtInit, 1, ArgSize(RootFunc) \div WordSize)
       /\ (RootHasArg /\ co.stack = 0) =>
            failed = "can't have arguments to a coroutine without a stack!"
       /\ (RootHasArg /\ co.stack # 0 /\ co.stack_size = 0) =>
            failed = "Stack overflow in coro!"

C12_Witness ==
    /\ Ok /\ resumes = 0 /\ RootFunc = coro_with_args
    /\ co.stack_top = co.stack + ArgSize(coro_with_args)
    /\ co.call.call_args = 0 /\ co.call.call_locals = NONE

----------------------------------------------------------------------------
(* C13                                                                     *)

\* an allocation of the last operation asked for more than the buffer holds
OverflowAttempts ==
    {k \in Idx(trace) : /\ trace[k].ev = "alloc"
                        /\ trace[k].a + trace[k].b > co.stack + co.stack_size}

\* C13: a co_resume in which an allocation exceeds the capacity of the buffer
\* returns normally, with the coroutine not completed, instead of halting.
C13_OverflowReturns ==
    (resumes >= 1 /\ OverflowAttempts # {}) => (Ok /\ ~Done)

----------------------------------------------------------------------------
(* C14                                                                     *)

\* C14: after a co_resume in which an allocation exceeded the capacity the
\* embedder can replace the buffer by a larger one (and go on resuming).
C14_ReplaceAfterOverflow ==
    (resumes >= 1 /\ OverflowAttempts # {}) => ENABLED ReplaceStack

----------------------------------------------------------------------------
(* C15                                                                     *)

Overflowed == failed = "Stack overflow in coro!"

\* the allocation that failed
FailedAlloc == trace[Least(OverflowAttempts)]

\* the failed allocation is the argument block of a co_call whose frame
\* was allocated just before
FailedSecondAlloc ==
    /\ Overflowed /\ Len(trace) >= 2
    /\ FailedAlloc.call # CoAddr
    /\ trace[Len(trace) - 1].ev = "alloc"
    /\ trace[Len(trace) - 1].a = FailedAlloc.call

\* C15: when an allocation fails, it is the last thing the engine did: the
\* resumption-point id and the sub-call, locals and argument offsets of the
\* root and of every activation in the buffer are what they were when the
\* allocation was attempted.  When the argument block of a co_call fails
\* after its frame was allocated, the caller has no sub-call linked and the
\* new frame has no locals and no arguments.
C15_FailedAllocKeepsState ==
    Overflowed =>
       /\ OverflowAttempts = {Len(trace)}
       /\ co.call = FailedAlloc.root
       /\ mem = FailedAlloc.mem
       /\ FailedAlloc.call # CoAddr =>
            /\ FGet(M, FailedAlloc.call, "state") = FailedAlloc.st
            /\ FGet(M, FailedAlloc.call, "sub_call") = FailedAlloc.sub
            /\ FGet(M, FailedAlloc.call, "call_locals") = FailedAlloc.loc
            /\ FGet(M, FailedAlloc.call, "call_args") = FailedAlloc.args
       /\ FailedSecondAlloc =>
            LET frame == trace[Len(trace) - 1]
            IN  /\ FGet(M, frame.call, "sub_call") = NONE
                /\ FGet(M, frame.call, "state") = frame.st
                /\ FGet(M, frame.call, "call_locals") = frame.loc
                /\ FailedAlloc.loc = NONE /\ FailedAlloc.args = NONE

C15_Witness ==
    /\ FailedSecondAlloc /\ resumes >= 1
    /\ RootFunc = coro_with_args_in_subcall
    /\ co.call.sub_call = NONE /\ co.call.call_locals # NONE

----------------------------------------------------------------------------
(* C16                                                                     *)

\* the invocations of the last resume
Invocations == {k \in Idx(trace) : trace[k].ev = "invoke"}

\* C16: the first function a co_resume invokes is the root's, and every
\* function invoked during that co_resume, the root's and those of sub-calls
\* at any depth, created before or during it, receives the same userdata,
\* one the embedder passes.  After a co_init or a co_resume that returned,
\* the userdata stored in the root is null.
C16_UserdataPerResume ==
    /\ resumes >= 1 =>
         /\ trace # << >> => (trace[1].ev = "invoke" /\ trace[1].call = CoAddr)
         /\ \A k \in Invocations :
              /\ trace[k].a \in Userdatas
              /\ trace[k].a = trace[1].a
    /\ Ok => co.userdata = 0

C16_Witness ==
    /\ Ok /\ resumes >= 2 /\ RootFunc = call_in_call(coro_sub_call)
    /\ \E k \in Invocations :
         trace[k].call # CoAddr /\ FirstInvocation(k) /\ trace[k].a = UdB
    /\ \E k \in Invocations :
         trace[k].call # CoAddr /\ ~FirstInvocation(k) /\ trace[k].a = UdB
    /\ prev # << >> /\ prev[1].a = UdA
    /\ co.userdata = 0

----------------------------------------------------------------------------
(* C17                                                                     *)

\* C17: the resumption-point id of a call-state is CORO_STATE_CREATED from
\* its initialisation until its first invocation, and CORO_STATE_COMPLETED
\* once it has finished.
C17_CreatedUntilInvoked ==
    /\ (Ok /\ resumes = 0) => co.call.state = CORO_STATE_CREATED
    /\ \A k \in Invocations : FirstInvocation(k) => trace[k].st = CORO_STATE_CREATED
    /\ Done => co.call.state = CORO_STATE_COMPLETED

----------------------------------------------------------------------------
(* C18                                                                     *)

\* C18: a _co_stack_alloc that succeeds returns the lowest address not below
\* the high-water mark that is a multiple of the alignment asked for, and
\* moves the mark to that address plus the size asked for.
C18_AllocLowestAligned ==
    [][(failed' = "" /\ trace' # << >>) =>
          LET ptr == trace'[1].a
              size == trace'[1].b
              align == input0'
          IN  /\ trace'[1].ev = "alloc"
              /\ ptr >= co.stack_top
              /\ ptr % align = 0
              /\ \A q \in co.stack_top .. ptr - 1 : q % align # 0
              /\ co'.stack_top = ptr + size
              /\ size \in 0 .. MaxAllocSize /\ align \in Alignments]_vars

C18_Witness ==
    /\ Ok /\ trace # << >> /\ prev # << >>
    /\ input0 = 8 /\ prev[1].top % 8 = 3
    /\ trace[1].a = prev[1].top + 5 /\ trace[1].b = 3
    /\ co.stack_top = trace[1].a + 3

----------------------------------------------------------------------------
(* C19                                                                     *)

\* the words of the buffer inside the block an allocation asked for
BlockWords(e) == {p \in DOMAIN mem : p >= e.a /\ p < e.a + e.b}

\* C19: in every state without a failure the high-water mark is between the
\* start and the end of the buffer.  An allocation that asks for more than
\* the buffer holds is reported as a failure, and in the state in which it is
\* reported every word of the requested block that lies in the buffer holds
\* what it held when the allocation was made.
C19_MarkInBuffer ==
    /\ Ok => (co.stack <= co.stack_top /\ co.stack_top <= co.stack + co.stack_size)
    /\ OverflowAttempts # {} =>
         /\ Overflowed
         /\ \A p \in BlockWords(FailedAlloc) : mem[p] = FailedAlloc.mem[p]

C19_Witness ==
    /\ Overflowed /\ resumes >= 1
    /\ BlockWords(FailedAlloc) # {}
    /\ FailedAlloc.a < co.stack + co.stack_size
    /\ co.stack_top > co.stack + co.stack_size

----------------------------------------------------------------------------
(* C20                                                                     *)

RewindRejected == "ptr from outside current coro-stack is used for rewind of stack!!!"

\* addresses below, inside, at the end of and beyond the buffer
RewindProbes ==
    {0, co.stack + co.stack_size, co.stack + co.stack_size + WordSize}
      \cup {p \in {co.stack - WordSize, co.stack - 1} : p >= 0}
      \cup {co.stack + d : d \in 0 .. co.stack_size - 1}

InBuffer(p) == p >= co.stack /\ p < co.stack + co.stack_size

\* C20: _co_stack_rewind to an address outside [stack, stack + stack_size)
\* fails and leaves the high-water mark where it was; to an address inside
\* it moves the mark there.  The engine never fails that way: each rewind it
\* makes follows the return of a sub-call that completed, goes to the address
\* of that sub-call's frame, and that address is inside the buffer.
C20_RewindInsideBuffer ==
    /\ Ok => \A p \in RewindProbes :
               LET m1 == _co_stack_rewind(M, CoAddr, p)
               IN  IF InBuffer(p)
                   THEN m1.failed = "" /\ m1.co.stack_top = p
                   ELSE m1.failed = RewindRejected /\ m1.co.stack_top = co.stack_top
    /\ failed # RewindRejected
    /\ \A k \in Idx(trace) :
         trace[k].ev = "rewind" =>
            /\ k > 1 /\ Completing(trace, k - 1)
            /\ trace[k].a = trace[k - 1].call
            /\ InBuffer(trace[k].a)
            /\ trace[k].top = trace[k].a

C20_Witness ==
    /\ Ok /\ resumes >= 1
    /\ \E k \in Idx(trace) : trace[k].ev = "rewind" /\ trace[k].a > co.stack
    /\ _co_stack_rewind(M, CoAddr, co.stack + co.stack_size).failed = RewindRejected

----------------------------------------------------------------------------
(* C21                                                                     *)

\* the end of the block of size bytes at stack offset off (the start of the
\* buffer for no block)
BlockEnd(off, size) == IF off = NONE THEN co.stack ELSE co.stack + off + size

\* the allocations, before event k of the current log, of a frame at the
\* address of the activation of event k
FrameAllocs(k) ==
    {j \in Idx(trace) : /\ j < k /\ trace[j].ev = "alloc"
                        /\ trace[j].a = trace[k].call /\ trace[j].b = FrameSize}

\* C21: the event after the return of a sub-call that completed is its
\* parent's rewind to the address of the sub-call's frame, which becomes the
\* high-water mark.  The frame, the sub-call's argument block and locals and
\* all it allocated in this resume are at or above that address; the parent's
\* locals and argument block end at or below it and have the contents they
\* had at the parent's previous event.
C21_CompletedSubCallReleased ==
    Ok => \A k \in Idx(trace) :
            CompletedReturn(k) =>
              /\ k < Len(trace)
              /\ LET c == trace[k].call
                     r == trace[k + 1]
                     p == trace[Greatest(Earlier(trace, k, r.call))]
                 IN  /\ r.ev = "rewind" /\ r.a = c /\ r.top = c
                     /\ r.call # c /\ r.sub = _co_ptr_to_stack_offset(M, CoAddr, c)
                     /\ trace[k].args # NONE => co.stack + trace[k].args >= c + FrameSize
                     /\ trace[k].loc # NONE => co.stack + trace[k].loc >= c + FrameSize
                     /\ \A j \in Earlier(trace, k, c) : trace[j].ev = "alloc" => trace[j].a >= c
                     /\ \A i \in FrameAllocs(k) :
                          i = Greatest(FrameAllocs(k)) => \A j \in i .. k : trace[j].top > c
                     /\ Earlier(trace, k, r.call) # {}
                     /\ BlockEnd(r.loc, LocalsSize(r.func)) <= r.top
                     /\ BlockEnd(r.args, ArgSize(r.func)) <= r.top
                     /\ r.loc = p.loc /\ r.args = p.args
                     /\ r.lv = LocalsAfter(p) /\ r.av = ArgsAfter(p)

C21_Witness ==
    /\ Ok /\ RootFunc = call_in_call(coro_sub_call)
    /\ \E k \in Idx(trace) :
         /\ CompletedReturn(k) /\ trace[k].loc # NONE
         /\ trace[k + 1].ev = "rewind" /\ trace[k + 1].call # CoAddr
         /\ trace[k + 1].lv # << >> /\ trace[k + 1].top = trace[k].call

----------------------------------------------------------------------------
(* C22                                                                     *)

\* the events of an activation's body: the dispatch of co_begin and the
\* statements
BodyEvents ==
    {k \in Idx(trace) : trace[k].ev \notin {"invoke", "alloc", "locals_new", "ret", "begin_ret",
                                           "rewind", "call_yield", "call_done"}}

\* the invocations of activations that existed when the resume started
Reinvocations == {k \in Invocations : ~FirstInvocation(k) /\ (trace[k].call = CoAddr => resumes > 1)}

\* C22: a resume first invokes the chain of active activations from the root
\* down, each invocation that of the sub-call of the one before, and the
\* first body code it runs is that of the activation without sub-call at the
\* end of the chain.  Body code runs only in an activation that has no
\* sub-call.  An activation that existed when the resume started is invoked
\* at most once in it, and the root exactly once.
C22_DepthFirst ==
    (resumes >= 1 /\ BodyEvents # {}) =>
       LET first == Least(BodyEvents)
       IN  /\ \A k \in 1 .. first - 1 :
                /\ trace[k].ev \in {"invoke", "alloc", "locals_new"}
                /\ (trace[k].ev = "invoke" /\ k > 1) =>
                     LET up == trace[Greatest({j \in Invocations : j < k})]
                     IN  /\ up.sub # NONE
                         /\ trace[k].call = _co_stack_offset_to_ptr(M, CoAddr, up.sub)
                         /\ trace[k].depth = up.depth + 1
           /\ trace[first].ev = "enter"
           /\ trace[first].call = trace[Greatest({j \in Invocations : j < first})].call
           /\ \A k \in BodyEvents : trace[k].sub = NONE
           /\ \A k \in Reinvocations : k < first
           /\ \A j, k \in Reinvocations : trace[j].call = trace[k].call => j = k
           /\ {k \in Invocations : trace[k].call = CoAddr} = {1}

C22_Witness ==
    /\ Ok /\ resumes >= 2 /\ BodyEvents # {}
    /\ Least(BodyEvents) = 4
    /\ trace[3].ev = "invoke" /\ trace[3].depth = 3
    /\ \E k \in BodyEvents : trace[k].call = trace[2].call

----------------------------------------------------------------------------
(* C23                                                                     *)

\* deepest chain of sub-calls followed
MaxDepth == 4

\* the frame of a call-state at address p lies in the buffer of m
FrameInBuffer(m, p) ==
    \A d \in {Off[fld] : fld \in DOMAIN Off} : (p + d) \in DOMAIN m.mem

\* the addresses of the call-states of m from call down its sub_call links;
\* a link that leads out of the buffer ends the chain with -1
RECURSIVE ChainFrom(_, _, _)
ChainFrom(m, call, n) ==
    LET sub == FGet(m, call, "sub_call")
        p == _co_stack_offset_to_ptr(m, call, sub)
    IN  IF sub = NONE \/ n = 0 THEN <<call>>
        ELSE IF ~FrameInBuffer(m, p) THEN <<call, -1>>
        ELSE <<call>> \o ChainFrom(m, p, n - 1)

Chain(m) == ChainFrom(m, CoAddr, MaxDepth)

\* what is stored for the call-state at address c of m: its fields and the
\* contents of its locals and argument blocks
Stored(m, c) ==
    IF c = -1 THEN << >>
    ELSE <<FGet(m, c, "root"), FGet(m, c, "func"), FGet(m, c, "state"), FGet(m, c, "sub_call"),
           FGet(m, c, "call_locals"), FGet(m, c, "call_args"),
           Block(m, FGet(m, c, "call_locals"), LocalsSize(FGet(m, c, "func"))),
           Block(m, FGet(m, c, "call_args"), ArgSize(FGet(m, c, "func")))>>

StoredChain(m) == [i \in DOMAIN Chain(m) |-> Stored(m, Chain(m)[i])]

MarkOffset(m) == m.co.stack_top - m.co.stack

MarkInBuffer(m) == MarkOffset(m) >= 0 /\ MarkOffset(m) <= m.co.stack_size

\* the events of a resume without the addresses: what ran, and the offsets
Shape(t) ==
    [k \in DOMAIN t |-> <<t[k].ev, t[k].func, t[k].pc, t[k].st, t[k].sub, t[k].loc, t[k].args,
                          t[k].lv, t[k].av, t[k].wait, t[k].depth>>]

\* the relocation the embedder can apply in this state
CanRelocate == Ok /\ co.stack # NewStackBase /\ co.stack_size < NewStackSize

\* the buffer's bytes copied to the new buffer, base and capacity updated,
\* the high-water mark left as it is
RelocateBaseOnly(m, fill) ==
    [co_replace_stack(m, NewStackBase, NewStackSize, fill).m EXCEPT !.co.stack_top = m.co.stack_top]

\* machine a, resumed after the relocation, is machine b relocated after
\* the resume b0
SameOutcome(a, b, b0) ==
    /\ a.failed = "" /\ a.co = b.co /\ a.mem = b.mem /\ a.ext = b.ext
    /\ Shape(a.trace) = Shape(b0.trace)
    /\ StoredChain(a) = StoredChain(b0)

ResumeCommutes(r, b0, u, fill) ==
    b0.failed = "" =>
       SameOutcome(co_resume([r EXCEPT !.trace = << >>], u),
                   co_replace_stack(b0, NewStackBase, NewStackSize, fill).m, b0)

RelocationKeeps(r, fill) ==
    /\ MarkInBuffer(r) /\ MarkOffset(r) = MarkOffset(M)
    /\ r.co.call = co.call
    /\ -1 \notin {Chain(r)[i] : i \in DOMAIN Chain(r)}
    /\ StoredChain(r) = StoredChain(M)
    /\ \A i \in DOMAIN Chain(r) : i > 1 => Chain(r)[i] - r.co.stack = Chain(M)[i] - co.stack
    /\ ~Done => \A u \in Userdatas :
                  ResumeCommutes(r, co_resume([M EXCEPT !.trace = << >>], u), u, fill)

----------------------------------------------------------------------------
(* C24                                                                     *)

\* events of the engine's way back up the chain after a suspension: the
\* return of the suspended activation and, in each caller, the co_yield of
\* co_call or the return of co_begin
Unwinding == {"ret", "call_yield", "begin_ret"}

\* C24: after a co_resume the coroutine is not completed exactly when a
\* co_yield or co_wait statement was executed in that resume.  It was
\* executed once, by an activation without sub-call that no other activation
\* was below, and nothing but the returns up the chain followed it, each of
\* an activation that is not completed.  Without one, the resume ran until
\* the root completed.
C24_SuspendOnlyAtYield ==
    (Ok /\ resumes >= 1) =>
       /\ ~Done <=> Suspensions(trace) # {}
       /\ \A k \in Suspensions(trace) :
            /\ Suspensions(trace) = {k}
            /\ trace[k].sub = NONE
            /\ \A j \in Idx(trace) : trace[j].depth <= trace[k].depth \/ j < k
            /\ \A j \in k + 1 .. Len(trace) :
                 /\ trace[j].ev \in Unwinding
                 /\ trace[j].st # CORO_STATE_COMPLETED
                 /\ trace[j].depth <= trace[j - 1].depth
            /\ trace[Len(trace)].call = CoAddr
       /\ Done => trace[Len(trace)].ev = "ret" /\ trace[Len(trace)].call = CoAddr

C24_Witness ==
    /\ Ok /\ ~Done /\ resumes >= 2
    /\ \E k \in Suspensions(trace) :
         /\ trace[k].depth >= 2
         /\ \E j \in 1 .. k - 1 : trace[j].ev = "rewind"

----------------------------------------------------------------------------
(* C25                                                                     *)

\* the blocks of the stack buffer in use: for each call-state of the chain
\* its frame (the root's is not in the buffer), its argument block and its
\* locals, as [i, kind, from, to): the block of the i-th call-state
LiveBlocks ==
    LET ch == Chain(M)
    IN  {[i |-> i, kind |-> "frame", from |-> ch[i], to |-> ch[i] + FrameSize] :
            i \in {j \in DOMAIN ch : j > 1}}
        \cup {[i |-> i, kind |-> "args",
               from |-> co.stack + FGet(M, ch[i], "call_args"),
               to |-> co.stack + FGet(M, ch[i], "call_args") + ArgSize(FGet(M, ch[i], "func"))] :
            i \in {j \in DOMAIN ch : FGet(M, ch[j], "call_args") # NONE}}
        \cup {[i |-> i, kind |-> "locals",
               from |-> co.stack + FGet(M, ch[i], "call_locals"),
               to |-> co.stack + FGet(M, ch[i], "call_locals") + LocalsSize(FGet(M, ch[i], "func"))] :
            i \in {j \in DOMAIN ch : FGet(M, ch[j], "call_locals") # NONE}}

\* C25: between operations the call-states linked by sub_call from the root
\* form one chain of frames inside the buffer at strictly increasing
\* addresses, ending in a call-state without sub-call.  The argument block
\* and the locals of a nested call-state start at or after the end of its
\* frame; every block of a call-state ends at or before the frame of its
\* sub-call; the blocks in use are pairwise disjoint and lie between the
\* start of the buffer and the high-water mark.  An activation that was
\* invoked has an offset for the locals its function declares, one created
\* with an argument has an offset for it, and every offset stored is less
\* than the capacity, so none is the sentinel 0xFFFFFFFF.
C25_Layout ==
    Ok =>
       LET ch == Chain(M)
       IN  /\ \A i \in DOMAIN ch : ch[i] # -1
           /\ Len(ch) <= MaxDepth
           /\ FGet(M, ch[Len(ch)], "sub_call") = NONE
           /\ \A i \in DOMAIN ch : i > 1 =>
                /\ FrameInBuffer(M, ch[i]) /\ ch[i] % FrameAlign = 0
                /\ i > 2 => ch[i] >= ch[i - 1] + FrameSize
           /\ \A x \in LiveBlocks :
                /\ x.from >= co.stack /\ x.from < x.to /\ x.to <= co.stack_top
                /\ x.from - co.stack < co.stack_size /\ x.from - co.stack # NONE
                /\ (x.i > 1 /\ x.kind # "frame") => x.from >= ch[x.i] + FrameSize
                /\ x.i < Len(ch) => x.to <= ch[x.i + 1]
                /\ \A y \in LiveBlocks : x = y \/ x.to <= y.from \/ y.to <= x.from
           /\ \A i \in DOMAIN ch :
                LET f == FGet(M, ch[i], "func")
                IN  /\ (LocalsSize(f) > 0 /\ (i > 1 \/ resumes >= 1)) <=>
                          FGet(M, ch[i], "call_locals") # NONE
                    /\ (i = 1 /\ ArgSize(f) > 0) => FGet(M, ch[i], "call_args") # NONE
                    /\ ArgSize(f) = 0 => FGet(M, ch[i], "call_args") = NONE

C25_Witness ==
    /\ Ok /\ ~Done /\ Len(Chain(M)) = 3
    /\ \E x \in LiveBlocks : x.i = 3 /\ x.kind = "locals"
    /\ \E x \in LiveBlocks : x.i = 2 /\ x.kind = "locals"
    /\ Cardinality(LiveBlocks) = 4

----------------------------------------------------------------------------
(* C26                                                                     *)

\* C26: a coroutine is never completed and waiting.  In a resume, what
\* follows a co_wait is only the returns up the chain, with the flag set; in
\* the resume that completes the root no co_wait is executed and the flag is
\* clear at every event.
C26_NotCompletedAndWaiting ==
    Ok =>
       /\ ~(Done /\ co_waiting(M))
       /\ \A k \in Idx(trace) :
            trace[k].ev = "wait" =>
               \A j \in k + 1 .. Len(trace) : trace[j].ev \in Unwinding /\ trace[j].wait = 1
       /\ (Done /\ resumes >= 1) =>
            \A k \in Idx(trace) : trace[k].ev # "wait" /\ trace[k].wait = 0

C26_Witness ==
    /\ Ok /\ Done /\ ~co_waiting(M) /\ resumes >= 2
    /\ \E k \in Idx(prev) : prev[k].ev = "wait" /\ prev[Len(prev)].wait = 1
    /\ \E k \in Idx(trace) : trace[k].depth >= 2

----------------------------------------------------------------------------
(* C27                                                                     *)

\* C27: the number of co_resume calls made is the number of co_yield and
\* co_wait statements executed by all activations since co_init, plus one
\* once the root is completed.  coro_sub_call, looping C3_K times over a
\* sub-call that yields C3_M times, is completed after C3_K * C3_M + 1
\* resumes and not before; the counting coroutine started at n after n + 1.
C27_ResumesPerSuspension ==
    Ok =>
       /\ resumes = suspended + (IF Done THEN 1 ELSE 0)
       /\ RootFunc = coro_sub_call =>
            /\ resumes <= C3_K * C3_M + 1
            /\ Done <=> resumes = C3_K * C3_M + 1
       /\ RootFunc = call_in_call(coro_sub_call) => (Done <=> resumes = C3_K * C3_M + 1)
       /\ RootFunc = arg_countdown => (Done <=> resumes = input0 + 1)

C27_Witness ==
    /\ Ok /\ Done /\ RootFunc = coro_sub_call
    /\ suspended = 4 /\ resumes = 5
    /\ \E k \in Idx(prev) : prev[k].ev \in {"call_yield", "begin_ret"} /\ prev[k].call = CoAddr

----------------------------------------------------------------------------
(* C28                                                                     *)

\* the co_call statements of the log t
Calls(t) == {k \in Idx(t) : t[k].ev = "call"}

\* the event at which the co_call of event k is over in the same resume, the
\* sub-call having completed; 0 if there is none
CallDone(k) ==
    LET done == {d \in Later(trace, k, trace[k].call) :
                   /\ trace[d].ev = "call_done"
                   /\ \A j \in Later(trace, k, trace[k].call) : j < d => trace[j].ev \in {"alloc", "rewind"}}
    IN  IF done = {} THEN 0 ELSE Least(done)

\* C28, as stated: when a co_call is over with its sub-call completed, the
\* high-water mark is what it was right before the co_call.
C28_MarkRestored ==
    Ok => \A k \in Calls(trace) :
            CallDone(k) # 0 => trace[CallDone(k)].top = trace[k].top

\* C28, amended: a co_call places the frame at the first multiple of the
\* frame's alignment at or above the high-water mark.  When the sub-call has
\* completed, in this resume or a later one, the mark is the address of the
\* frame: its value before the co_call plus the padding, which is less than
\* the alignment and is not released.  The next co_call of the activation
\* places its frame at the same address.
C28_MarkAtFrame ==
    Ok =>
       /\ \A k \in Calls(trace) :
            /\ k < Len(trace) /\ trace[k + 1].ev = "alloc" /\ trace[k + 1].b = FrameSize
            /\ trace[k + 1].a >= trace[k].top
            /\ trace[k + 1].a - trace[k].top < FrameAlign
            /\ trace[k + 1].a % FrameAlign = 0
            /\ CallDone(k) # 0 => trace[CallDone(k)].top = trace[k + 1].a
            /\ \A j \in Calls(trace) :
                 (j < k /\ trace[j].call = trace[k].call /\ trace[j].depth = trace[k].depth
                    /\ \A i \in j .. k : trace[i].depth >= trace[k].depth) =>
                    trace[k + 1].a = trace[j + 1].a
            /\ \A j \in Calls(prev) :
                 (trace[k].call = CoAddr /\ prev[j].call = CoAddr) =>
                    trace[k + 1].a = prev[j + 1].a
       /\ \A r \in Idx(trace) :
            trace[r].ev = "rewind" =>
               /\ trace[r].top = _co_stack_offset_to_ptr(M, CoAddr, trace[r].sub)
               /\ r < Len(trace) /\ trace[r + 1].top = trace[r].top

C28_Witness ==
    /\ Ok /\ RootFunc = coro_with_args_in_subcall
    /\ \E k \in Calls(trace) :
         /\ CallDone(k) # 0
         /\ trace[k].top % FrameAlign # 0
         /\ trace[CallDone(k)].top > trace[k].top
         /\ \E j \in Calls(trace) : j > k /\ trace[j].top = trace[CallDone(k)].top
                                          /\ trace[j + 1].a = trace[k + 1].a

----------------------------------------------------------------------------
(* C29                                                                     *)

\* the first invocations of sub-calls in the last resume
NewSubCalls == {k \in Invocations : trace[k].call # CoAddr /\ FirstInvocation(k)}

\* an activation of the same function completed earlier in the resume at
\* the address of the activation invoked at event k
ReusesFrame(k) ==
    \E j \in 1 .. k - 1 :
        Completing(trace, j) /\ trace[j].call = trace[k].call /\ trace[j].func = trace[k].func

\* C29: each co_call invokes a call-state whose resumption-point id is the
\* initial one, that has no sub-call and no locals yet.  If its function
\* declares locals they are allocated and constructed to their initial
\* values before co_begin, and co_begin enters the body at its first
\* statement; also at an address where an activation of the same function
\* completed before.
C29_FreshActivation ==
    Ok => \A k \in NewSubCalls :
            LET f == trace[k].func
                n == IF LocalsSize(f) > 0 THEN 2 ELSE 0
            IN  /\ trace[k - 1].ev = "alloc"
                /\ Greatest(Calls(trace) \cap 1 .. k) \in {k - 2, k - 3}
                /\ f = Body(trace[Greatest(Calls(trace) \cap 1 .. k)].func)
                           [trace[Greatest(Calls(trace) \cap 1 .. k)].pc].a
                /\ trace[k].st = 0 /\ trace[k].sub = NONE /\ trace[k].loc = NONE
                /\ k + n + 1 <= Len(trace)
                /\ n = 2 =>
                     /\ trace[k + 1].ev = "alloc" /\ trace[k + 1].call = trace[k].call
                     /\ trace[k + 2].ev = "locals_new" /\ trace[k + 2].call = trace[k].call
                     /\ trace[k + 2].lv = LocalsInit(f)
                     /\ trace[k + 2].loc # NONE
                /\ trace[k + n + 1].ev = "enter" /\ trace[k + n + 1].call = trace[k].call
                /\ trace[k + n + 1].pc = Entry(f)
                /\ trace[k + n + 1].sub = NONE
                /\ trace[k + n + 1].lv = LocalsInit(f)

C29_Witness ==
    /\ Ok /\ RootFunc = coro_sub_call
    /\ \E k \in NewSubCalls :
         /\ ReusesFrame(k)
         /\ LocalsSize(trace[k].func) > 0
         /\ \E j \in 1 .. k - 1 :
              /\ Completing(trace, j) /\ trace[j].call = trace[k].call
              /\ trace[j].lv # LocalsInit(trace[k].func)
              /\ trace[j].loc = trace[k + 2].loc
         /\ trace[k + 2].lv = LocalsInit(trace[k].func)

----------------------------------------------------------------------------
(* C30                                                                     *)

\* the assertions that fire for want of stack
StackFailures == {"Stack overflow in coro!",
                  "can't have arguments to a coroutine without a stack!"}

\* the event at which the root completed in the last resume, 0 if it did not
RootEnd ==
    LET S == {k \in Idx(trace) : Completing(trace, k) /\ trace[k].call = CoAddr}
    IN  IF S = {} THEN 0 ELSE Least(S)

\* every activation that ran below the root in the last resume completed
\* before the root did, and the root has no sub-call left
NestedCompleted ==
    /\ RootEnd # 0
    /\ co.call.sub_call = NONE
    /\ \A k \in Invocations :
         trace[k].call # CoAddr =>
            \E j \in Later(trace, k, trace[k].call) : Completing(trace, j) /\ j < RootEnd
    /\ \A k \in Idx(prev) :
         prev[k].ev \in {"yield", "wait"} /\ prev[k].call # CoAddr =>
            \E j \in Idx(trace) :
                /\ Completing(trace, j) /\ j < RootEnd
                /\ trace[j].call = prev[k].call /\ trace[j].func = prev[k].func

\* C30: the driver loop, run on a coroutine of any of the functions, ends:
\* unless an assertion fires for want of stack, and no other assertion
\* does, co_completed becomes true after finitely many co_resume; none
\* fires with the largest of the buffers; and when the root has completed,
\* every activation below it has completed before it.
C30_DriverTerminates ==
    /\ [](~Ok => failed \in StackFailures)
    /\ <>(Done \/ ~Ok)
    /\ [](co.stack_size = Greatest(StackSizes) => Ok)
    /\ [](Done => NestedCompleted)

C30_Witness ==
    /\ Ok /\ Done /\ resumes >= 3
    /\ RootFunc = call_in_call(call_in_call(coro_wait_without_braces))
    /\ NestedCompleted
    /\ \E k \in Idx(prev) : prev[k].ev = "wait" /\ prev[k].depth = 3

====
